---- MODULE Spec2Model ----
(***************************************************************************)
(* A model of the knowledge-graph store (GraphDB) and the decision journal *)
(* (LearningTracker) of memory_toolbox.py, and of the collaborators built  *)
(* on them: the tarot spread seeder, the seeded myths, the excavation, the *)
(* ritual registry and the rhizome notes.                                  *)
(*                                                                         *)
(* Conventions                                                             *)
(*   - node ids and relationships are strings; NULL stands for Python's    *)
(*     None / SQL NULL in such a position and is not one of the strings    *)
(*     callers pass;                                                       *)
(*   - other Python values are tagged records [t, v] (PyNone, PyStr, ...); *)
(*     text is a tuple of one-character strings;                           *)
(*   - a confidence c stands for the float c / ConfUnit;                   *)
(*   - a timestamp n stands for the ISO-8601 text of the wall clock        *)
(*     reading n; the texts compare as the readings do. Successive         *)
(*     readings increase, except where ClockAdjust sets the clock back.    *)
(***************************************************************************)
EXTENDS Integers, Sequences, FiniteSets, TLC

\* ------------------------------------------------------------------------
\* Bounds of the model
\* ------------------------------------------------------------------------
MaxCalls == 2

MaxLog == 2

\* The number of writes before the statistics, and before the listings.
MaxStatCalls == 3

MaxListCalls == 3

\* The largest clock reading after which export_as_json is still called.
MaxClock == 5

\* ------------------------------------------------------------------------
\* Python and SQL values
\* ------------------------------------------------------------------------
NULL == "<NULL>"

ConfUnit == 100

PyNone == [t |-> "none", v |-> <<>>]

PyStr(s) == [t |-> "str", v |-> s]

PyInt(n) == [t |-> "int", v |-> n]

PyDict(items) == [t |-> "dict", v |-> items]

PyList(elems) == [t |-> "list", v |-> elems]

SqlNull == [t |-> "null", v |-> <<>>]

SqlText(s) == [t |-> "text", v |-> s]

\* Python truth value of x, as used by `if metadata`, `result or {}`.
Truthy(x) ==
  CASE x.t = "none" -> FALSE
    [] x.t = "int" -> x.v # 0
    [] OTHER -> x.v # <<>>

QUOTE == "\""

BSL == "\\"

NL == "\n"

\* An encoder that writes a newline inside a string as it is.
RECURSIVE EscapeChars_RawNewline(_)
EscapeChars_RawNewline(s) ==
  IF s = <<>> THEN <<>>
  ELSE LET c == Head(s)
           e == CASE c = QUOTE -> <<BSL, QUOTE>>
                  [] c = BSL -> <<BSL, BSL>>
                  [] OTHER -> <<c>>
       IN e \o EscapeChars_RawNewline(Tail(s))

\* json.dumps of the characters of a string (ensure_ascii escapes).
RECURSIVE EscapeChars(_)
EscapeChars(s) ==
  IF s = <<>> THEN <<>>
  ELSE LET c == Head(s)
           e == CASE c = QUOTE -> <<BSL, QUOTE>>
                  [] c = BSL -> <<BSL, BSL>>
                  [] c = NL -> <<BSL, "n">>
                  [] OTHER -> <<c>>
       IN e \o EscapeChars(Tail(s))

DumpsStr(s) == <<QUOTE>> \o EscapeChars(s) \o <<QUOTE>>

\* json.dumps with the default separators ", " and ": ".
RECURSIVE Dumps(_)
RECURSIVE DumpItems(_)
RECURSIVE DumpElems(_)
Dumps(x) ==
  CASE x.t = "str" -> DumpsStr(x.v)
    [] x.t = "dict" -> <<"{">> \o DumpItems(x.v) \o <<"}">>
    [] x.t = "list" -> <<"[">> \o DumpElems(x.v) \o <<"]">>
    [] x.t = "none" -> <<"n", "u", "l", "l">>

DumpItems(items) ==
  IF items = <<>> THEN <<>>
  ELSE DumpsStr(Head(items)[1]) \o <<":", " ">> \o Dumps(Head(items)[2])
       \o (IF Tail(items) = <<>> THEN <<>> ELSE <<",", " ">> \o DumpItems(Tail(items)))

DumpElems(elems) ==
  IF elems = <<>> THEN <<>>
  ELSE Dumps(Head(elems))
       \o (IF Tail(elems) = <<>> THEN <<>> ELSE <<",", " ">> \o DumpElems(Tail(elems)))

\* json.loads: the value a JSON text denotes (objects, arrays, strings, null),
\* read left to right; [ok |-> FALSE] stands for json.JSONDecodeError.
ParseFail == [ok |-> FALSE, val |-> PyNone, rest |-> <<>>]

Parsed(v, rest) == [ok |-> TRUE, val |-> v, rest |-> rest]

RECURSIVE SkipSpaces(_)
SkipSpaces(s) == IF s # <<>> /\ Head(s) = " " THEN SkipSpaces(Tail(s)) ELSE s

\* The characters of a string up to its closing quote; a raw newline is not
\* allowed inside a string.
RECURSIVE ParseChars(_, _)
ParseChars(s, acc) ==
  IF s = <<>> THEN ParseFail
  ELSE LET c == Head(s)
       IN CASE c = QUOTE -> Parsed(PyStr(acc), Tail(s))
            [] c = NL -> ParseFail
            [] c = BSL ->
                 IF Tail(s) = <<>> THEN ParseFail
                 ELSE LET d == Head(Tail(s))
                      IN CASE d = QUOTE -> ParseChars(Tail(Tail(s)), Append(acc, QUOTE))
                           [] d = BSL -> ParseChars(Tail(Tail(s)), Append(acc, BSL))
                           [] d = "n" -> ParseChars(Tail(Tail(s)), Append(acc, NL))
                           [] OTHER -> ParseFail
            [] OTHER -> ParseChars(Tail(s), Append(acc, c))

RECURSIVE ParseValue(_)
RECURSIVE ParseMembers(_, _)
RECURSIVE ParseElements(_, _)
ParseValue(text) ==
  LET s == SkipSpaces(text)
  IN IF s = <<>> THEN ParseFail
     ELSE CASE Head(s) = QUOTE -> ParseChars(Tail(s), <<>>)
            [] Head(s) = "{" ->
                 LET b == SkipSpaces(Tail(s))
                 IN IF b # <<>> /\ Head(b) = "}" THEN Parsed(PyDict(<<>>), Tail(b))
                    ELSE ParseMembers(b, <<>>)
            [] Head(s) = "[" ->
                 LET b == SkipSpaces(Tail(s))
                 IN IF b # <<>> /\ Head(b) = "]" THEN Parsed(PyList(<<>>), Tail(b))
                    ELSE ParseElements(b, <<>>)
            [] Len(s) >= 4 /\ SubSeq(s, 1, 4) = <<"n", "u", "l", "l">> ->
                 Parsed(PyNone, SubSeq(s, 5, Len(s)))
            [] OTHER -> ParseFail

\* "key": value pairs up to the closing brace
ParseMembers(text, acc) ==
  LET s == SkipSpaces(text)
  IN IF s = <<>> \/ Head(s) # QUOTE THEN ParseFail
     ELSE LET k == ParseChars(Tail(s), <<>>)
              c == SkipSpaces(k.rest)
          IN IF ~k.ok \/ c = <<>> \/ Head(c) # ":" THEN ParseFail
             ELSE LET v == ParseValue(Tail(c))
                      e == SkipSpaces(v.rest)
                      items == Append(acc, <<k.val.v, v.val>>)
                  IN IF ~v.ok \/ e = <<>> THEN ParseFail
                     ELSE CASE Head(e) = "}" -> Parsed(PyDict(items), Tail(e))
                            [] Head(e) = "," -> ParseMembers(Tail(e), items)
                            [] OTHER -> ParseFail

\* values up to the closing bracket
ParseElements(text, acc) ==
  LET v == ParseValue(text)
      e == SkipSpaces(v.rest)
      elems == Append(acc, v.val)
  IN IF ~v.ok \/ e = <<>> THEN ParseFail
     ELSE CASE Head(e) = "]" -> Parsed(PyList(elems), Tail(e))
            [] Head(e) = "," -> ParseElements(Tail(e), elems)
            [] OTHER -> ParseFail

\* json.loads of one line
Loads(line) ==
  LET r == ParseValue(line)
  IN IF r.ok /\ SkipSpaces(r.rest) = <<>> THEN r ELSE ParseFail

\* ------------------------------------------------------------------------
\* Inputs
\* ------------------------------------------------------------------------
Ids == {"a", "b"}

Rels == {"r"}

Confs == {20, 90, 150}

MetaK == PyDict(<< <<(<<"k">>), PyStr(<<"v">>)>> >>)

Metas == {PyNone, PyDict(<<>>), MetaK}

\* ------------------------------------------------------------------------
\* State
\* ------------------------------------------------------------------------
VARIABLES
  nodes,      \* table nodes: rows [id, ts, created_by, metadata]
  edges,      \* table edges: rows [id, source, relationship, target, confidence, ts, metadata]
  edgeSeq,    \* sqlite_sequence of edges: the largest rowid handed out
  clock,      \* the last reading of datetime.now()
  ncalls,     \* number of calls made so far
  last,       \* the last call: its arguments and its outcome
  pre,        \* history: the tables as they were when the last call began
  qres,       \* the rows returned by the last query_edges call
  lastConf,   \* history: triple -> confidence of the most recent create_edge call that returned
  proc,       \* concurrent callers: each one's position in create_edge and its locals
  lock,       \* the connection whose open transaction holds the database write lock (0: none)
  journal,    \* the characters of the journal file
  logged,     \* history: the arguments of the log_decision calls, in call order
  out,        \* the value the last operation returned, if it was a read of the store
  hist,       \* history: creation order of the nodes, write order of the triples
  cwd,       \* the working directory of the process
  seeders,   \* the TarotSpreadSeeder objects built so far
  drawn,     \* history: the draw_spread calls that returned, in call order
  spread,    \* the value the last create_spread_edges call returned
  rng,       \* the shared generator of module random: its stream and the words drawn from it
  encoded,   \* history: the encode_myth_to_graph calls, each with its outcome
  excavations, \* the answers of the Excavation object last built: key -> text
  state_file, \* journal/.excavation_state.json: whether it exists, the dict its JSON text holds
  excavation_logs, \* the names whose journal/<name>_excavation.json and .md are written
  exLast,    \* the last call of an Excavation method: its argument and what it returned
  config_file, \* starter_config.json: whether it exists, the dict its JSON text holds
  rituals,   \* each ritual of the registry: its last_run and run_count
  registry_file, \* the text of journal/rituals.jsonl
  ritual_hist, \* the names passed to run_ritual so far, and the length of the file the registry found
  note_file, \* the note file of the title under .rhizome/notes: whether it exists, its text
  note_hist  \* the title of the note and, for each update_note call so far, its timestamp and the section it wrote

raceVars == <<proc, lock>>

journalVars == <<journal, logged>>

readVars == <<out, hist>>

starterVars == <<cwd, seeders, drawn, spread, rng, encoded, excavations, state_file, excavation_logs, exLast, config_file, rituals, registry_file, ritual_hist, note_file, note_hist>>

\* The variables of each collaborator, and those of the others.
tarotVars == <<cwd, seeders, drawn, spread, rng>>

mythVars == <<encoded>>

excavationVars == <<excavations, state_file, excavation_logs, exLast, config_file>>

ritualVars == <<rituals, registry_file, ritual_hist>>

noteVars == <<note_file, note_hist>>

otherThanTarot == <<mythVars, excavationVars, ritualVars, noteVars>>

otherThanMyth == <<tarotVars, excavationVars, ritualVars, noteVars>>

otherThanExcavation == <<tarotVars, mythVars, ritualVars, noteVars>>

otherThanRitual == <<tarotVars, mythVars, excavationVars, noteVars>>

otherThanNote == <<tarotVars, mythVars, excavationVars, ritualVars>>

vars == <<nodes, edges, edgeSeq, clock, ncalls, last, pre, qres, lastConf, proc, lock,
          journal, logged, out, hist,
          cwd,
          seeders,
          drawn,
          spread,
          rng,
          encoded,
          excavations,
          state_file,
          excavation_logs,
          exLast,
          config_file,
          rituals,
          registry_file,
          ritual_hist,
          note_file,
          note_hist>>

NoCall ==
  [op |-> "none", source |-> NULL, relationship |-> NULL, target |-> NULL,
   confidence |-> 0, metadata |-> PyNone, exc |-> "none", ret |-> PyNone,
   caught |-> "none"]

Procs == {1, 2}

Idle ==
  [pc |-> "idle", source |-> NULL, relationship |-> NULL, target |-> NULL,
   confidence |-> 0, metadata |-> PyNone, ts |-> 0, exc |-> "none", ret |-> PyNone,
   caught |-> "none"]

\* ------------------------------------------------------------------------
\* Schema (GraphDB._init_schema)
\* ------------------------------------------------------------------------
NodeIds(N) == {n.id : n \in N}

Triple(e) == <<e.source, e.relationship, e.target>>

\* nodes.id TEXT PRIMARY KEY
NodePrimaryKeyViolated(N, id) == \E n \in N : n.id = id

\* source, relationship, target TEXT NOT NULL
EdgeNotNullViolated(s, r, t) == s = NULL \/ r = NULL \/ t = NULL

EdgeUniqueViolated_NoConstraint(E, s, r, t) == FALSE

\* UNIQUE(source, relationship, target)
EdgeUniqueViolated(E, s, r, t) == \E e \in E : Triple(e) = <<s, r, t>>

\* FOREIGN KEY(source) REFERENCES nodes(id), FOREIGN KEY(target) REFERENCES nodes(id)
EdgeForeignKeyViolated(N, s, t) == s \notin NodeIds(N) \/ t \notin NodeIds(N)

\* The constraint an INSERT INTO edges fails on ("ok" when it succeeds); each
\* failure is raised as sqlite3.IntegrityError.
InsertEdgeError(N, E, s, r, t) ==
  IF EdgeNotNullViolated(s, r, t) THEN "NOT NULL"
  ELSE IF EdgeUniqueViolated(E, s, r, t) THEN "UNIQUE"
  ELSE IF EdgeForeignKeyViolated(N, s, t) THEN "FOREIGN KEY"
  ELSE "ok"

\* ------------------------------------------------------------------------
\* GraphDB
\* ------------------------------------------------------------------------
node_exists_AlwaysTrue(N, id) == TRUE

\* SELECT 1 FROM nodes WHERE id = ?
node_exists(N, id) == \E n \in N : n.id = id

\* json.dumps(metadata) if metadata else None
meta_json(metadata) == IF Truthy(metadata) THEN SqlText(Dumps(metadata)) ELSE SqlNull

\* create_node written as an INSERT OR REPLACE: an existing row is overwritten.
create_node_Replace(N, clk, node_id, metadata, fail) ==
  IF fail
  THEN [nodes |-> N, clock |-> clk, exc |-> "OperationalError"]
  ELSE LET ts == clk + 1
           row == [id |-> node_id, ts |-> ts, created_by |-> "system",
                   metadata |-> meta_json(metadata)]
       IN [nodes |-> {n \in N : n.id # node_id} \cup {row}, clock |-> ts, exc |-> "none"]

\* create_node on the table N at clock reading clk; fail: a statement of the
\* call raises a storage error (sqlite3.OperationalError).
create_node(N, clk, node_id, metadata, fail) ==
  IF fail
  THEN [nodes |-> N, clock |-> clk, exc |-> "OperationalError"]
  ELSE IF ~node_exists(N, node_id)
  THEN LET ts == clk + 1
           row == [id |-> node_id, ts |-> ts, created_by |-> "system",
                   metadata |-> meta_json(metadata)]
       IN IF NodePrimaryKeyViolated(N, node_id)
          THEN [nodes |-> N, clock |-> ts, exc |-> "IntegrityError"]
          ELSE [nodes |-> N \cup {row}, clock |-> ts, exc |-> "none"]
  ELSE [nodes |-> N, clock |-> clk, exc |-> "none"]

\* The corrective update with metadata = COALESCE(?, metadata): a call without
\* metadata keeps what is stored.
UpdateEdge_KeepsMetadata(E, s, r, t, confidence, ts, mj) ==
  {IF s # NULL /\ r # NULL /\ t # NULL /\ Triple(e) = <<s, r, t>>
   THEN [e EXCEPT !.confidence = confidence, !.ts = ts,
                  !.metadata = IF mj = SqlNull THEN e.metadata ELSE mj]
   ELSE e : e \in E}

\* The corrective update without its confidence column.
UpdateEdge_KeepsConfidence(E, s, r, t, confidence, ts, mj) ==
  {IF s # NULL /\ r # NULL /\ t # NULL /\ Triple(e) = <<s, r, t>>
   THEN [e EXCEPT !.ts = ts, !.metadata = mj]
   ELSE e : e \in E}

\* UPDATE edges SET confidence = ?, ts = ?, metadata = ?
\*   WHERE source = ? AND relationship = ? AND target = ?
\* (a NULL parameter equals nothing)
UpdateEdge(E, s, r, t, confidence, ts, mj) ==
  {IF s # NULL /\ r # NULL /\ t # NULL /\ Triple(e) = <<s, r, t>>
   THEN [e EXCEPT !.confidence = confidence, !.ts = ts, !.metadata = mj]
   ELSE e : e \in E}

FailPoints == {"none", "source", "target", "insert", "update"}

\* create_edge on the store (N, E, seq) at clock reading clk; fail names the
\* step of the call at which a storage error is raised, if any.
create_edge(N, E, seq, clk, source, relationship, target, confidence, metadata, fail) ==
  LET r1 == create_node(N, clk, source, PyNone, fail = "source")
      r2 == create_node(r1.nodes, r1.clock, target, PyNone, fail = "target")
      ts == r2.clock + 1
      mj == meta_json(metadata)
      err == InsertEdgeError(r2.nodes, E, source, relationship, target)
      row == [id |-> seq + 1, source |-> source, relationship |-> relationship,
              target |-> target, confidence |-> confidence, ts |-> ts, metadata |-> mj]
  IN IF r1.exc # "none"
     THEN [nodes |-> r1.nodes, edges |-> E, seq |-> seq, clock |-> r1.clock,
           exc |-> r1.exc, ret |-> PyNone, caught |-> "none"]
     ELSE IF r2.exc # "none"
     THEN [nodes |-> r2.nodes, edges |-> E, seq |-> seq, clock |-> r2.clock,
           exc |-> r2.exc, ret |-> PyNone, caught |-> "none"]
     ELSE IF fail = "insert"
     THEN [nodes |-> r2.nodes, edges |-> E, seq |-> seq, clock |-> ts,
           exc |-> "OperationalError", ret |-> PyNone, caught |-> "none"]
     ELSE IF err = "ok"
     THEN [nodes |-> r2.nodes, edges |-> E \cup {row}, seq |-> seq + 1, clock |-> ts,
           exc |-> "none", ret |-> PyInt(seq + 1), caught |-> "none"]
     ELSE IF fail = "update"
     THEN [nodes |-> r2.nodes, edges |-> E, seq |-> seq, clock |-> ts,
           exc |-> "OperationalError", ret |-> PyNone, caught |-> err]
     ELSE [nodes |-> r2.nodes,
           edges |-> UpdateEdge(E, source, relationship, target, confidence, ts, mj),
           seq |-> seq, clock |-> ts,
           exc |-> "none", ret |-> PyNone, caught |-> err]

\* `if source:` and its like: None and the empty string are both false.
StrTruthy(x) == x # NULL /\ x # ""

\* query_edges: "SELECT * FROM edges WHERE 1=1" with one " AND column = ?"
\* per filter the `if` lets through.
query_edges(E, source, relationship, target) ==
  {e \in E : /\ (StrTruthy(source) => e.source = source)
             /\ (StrTruthy(relationship) => e.relationship = relationship)
             /\ (StrTruthy(target) => e.target = target)}

\* ------------------------------------------------------------------------
\* Actions: one per public call
\* ------------------------------------------------------------------------
\* The last operation was not a read of the store.
NoOut == [op |-> "none", val |-> <<>>]

\* History of the writes: born lists the node ids in the order their rows were
\* inserted, touched lists the edge triples in the order of their most recent
\* insert or update (the latest last); each with the clock reading taken for it.
NoHist == [born |-> <<>>, touched |-> <<>>]

\* The members of the sequence s that satisfy keep, in their order.
RECURSIVE Only(_, _)
Only(s, keep) ==
  IF s = <<>> THEN <<>>
  ELSE (IF Head(s) \in keep THEN <<Head(s)>> ELSE <<>>) \o Only(Tail(s), keep)

\* The sequence s without repeated members (the first occurrence stays).
RECURSIVE Distinct(_)
Distinct(s) ==
  IF s = <<>> THEN <<>>
  ELSE <<Head(s)>> \o Distinct(Only(Tail(s), {x \in {s[i] : i \in DOMAIN s} : x # Head(s)}))

\* The rows with the given triple.
EdgesOf(E, tr) == {e \in E : Triple(e) = tr}

\* The members of the sequence of records s whose field tr is not in gone.
RECURSIVE Without(_, _)
Without(s, gone) ==
  IF s = <<>> THEN <<>>
  ELSE (IF Head(s).tr \in gone THEN <<>> ELSE <<Head(s)>>) \o Without(Tail(s), gone)

\* The history after a call that turned the node table N into N2, visited
\* the ids named in order, wrote the triples listed in written and moved the
\* clock from clk to clk2 (the readings of one call are clk + 1, ..., clk2, the
\* last of them taken for the edge).
HistAfter(h, N, N2, named, written, clk, clk2) ==
  LET fresh == Distinct(Only(named, NodeIds(N2) \ NodeIds(N)))
  IN [born |-> h.born \o [i \in DOMAIN fresh |-> [id |-> fresh[i], at |-> clk + i]],
      touched |-> Without(h.touched, {written[i] : i \in DOMAIN written})
                  \o [i \in DOMAIN written |-> [tr |-> written[i], at |-> clk2]]]

\* ------------------------------------------------------------------------
\* RitualRegistry: the rituals and the records of journal/rituals.jsonl
\* ------------------------------------------------------------------------
R_breathing == <<"b", "r", "e", "a", "t", "h", "i", "n", "g">>

R_retrospective == <<"r", "e", "t", "r", "o", "s", "p", "e", "c", "t", "i", "v", "e">>

R_logging == <<"l", "o", "g", "g", "i", "n", "g">>

\* The keys of self.rituals.
RitualNames == {R_breathing, R_retrospective, R_logging}

K_ritual == <<"r", "i", "t", "u", "a", "l">>

K_note == <<"n", "o", "t", "e">>

RitualCompleted == <<"R", "i", "t", "u", "a", "l", " ", "c", "o", "m", "p", "l", "e", "t", "e", "d">>

\* The entry _log_ritual builds, ts_text being datetime.now().isoformat().
RitualEntry(ts_text, ritual_name) ==
  PyDict(<< <<<<"t", "s">>, PyStr(ts_text)>>,
            <<K_ritual, PyStr(ritual_name)>>,
            <<K_note, PyStr(RitualCompleted)>> >>)

\* The file after `with open(self.registry_path, 'a') as f:
\*                    f.write(json.dumps(entry) + "\n")`
log_ritual(file, ts_text, ritual_name) ==
  file \o Dumps(RitualEntry(ts_text, ritual_name)) \o <<"\n">>

\* What the registry file holds when the registry is built: nothing, or the
\* record an earlier process left.
RegistryFiles == {<<>>, log_ritual(<<>>, <<"T", "0">>, R_logging)}

InitStore ==
  /\ nodes = {}
  /\ edges = {}
  /\ edgeSeq = 0
  /\ clock = 0
  /\ ncalls = 0
  /\ last = NoCall
  /\ pre = [nodes |-> {}, edges |-> {}]
  /\ qres = {}
  /\ lastConf = <<>>
  /\ lock = 0
  /\ journal = <<>>
  /\ logged = <<>>
  /\ out = NoOut
  /\ hist = NoHist

InitTarot ==
  /\ cwd = <<"/", "a">>
  /\ seeders = <<>>
  /\ drawn = <<>>
  /\ spread = <<>>

InitGenerator ==
  /\ rng = [seed |-> 0, pos |-> 0]

InitMyths ==
  /\ encoded = <<>>

InitExcavation ==
  /\ excavations = <<>>
  /\ state_file = [exists |-> FALSE, dict |-> <<>>]
  /\ excavation_logs = {}
  /\ exLast = [op |-> "none", key |-> NULL, name |-> <<>>, ret |-> PyNone]

InitConfig ==
  /\ config_file = [exists |-> FALSE, dict |-> <<>>]

\* RitualRegistry(): the registry built beside a registry file holding text.
InitRitualRegistry(text) ==
  /\ rituals = [n \in RitualNames |-> [last_run |-> PyNone, run_count |-> 0]]
  /\ registry_file = text
  /\ ritual_hist = [calls |-> <<>>, found |-> Len(text)]

InitRituals == InitRitualRegistry(<<>>)

InitNotes ==
  /\ note_file = [exists |-> FALSE, text |-> <<>>]
  /\ note_hist = [title |-> <<"t">>, calls |-> <<>>]

\* The state of the collaborators when the process starts.
InitCollaborators ==
  /\ InitTarot
  /\ InitMyths
  /\ InitExcavation
  /\ InitRituals
  /\ InitNotes

InitStarter ==
  /\ InitGenerator
  /\ InitConfig
  /\ InitCollaborators

Init ==
  /\ InitStore
  /\ InitStarter
  /\ proc = [p \in Procs |-> Idle]

\* One create_node call, whatever the number of calls made before it.
DoCreateNode(node_id, metadata, fail) ==
  /\ LET r == create_node(nodes, clock, node_id, metadata, fail)
     IN /\ nodes' = r.nodes
        /\ clock' = r.clock
        /\ last' = [NoCall EXCEPT !.op = "create_node", !.source = node_id,
                                  !.metadata = metadata, !.exc = r.exc,
                                  !.ret = IF r.exc = "none" THEN PyStr(node_id) ELSE PyNone]
        /\ hist' = HistAfter(hist, nodes, r.nodes, <<node_id>>, <<>>, clock, r.clock)
  /\ ncalls' = ncalls + 1
  /\ pre' = [nodes |-> nodes, edges |-> edges]
  /\ out' = NoOut
  /\ UNCHANGED <<edges, edgeSeq, qres, lastConf, raceVars, journalVars, starterVars>>

CreateNode(node_id, metadata, fail) ==
  /\ ncalls < MaxCalls
  /\ DoCreateNode(node_id, metadata, fail)

\* One create_edge call, whatever the number of calls made before it.
DoCreateEdge(source, relationship, target, confidence, metadata, fail) ==
  /\ LET r == create_edge(nodes, edges, edgeSeq, clock, source, relationship, target,
                          confidence, metadata, fail)
         tr == <<source, relationship, target>>
     IN /\ nodes' = r.nodes
        /\ edges' = r.edges
        /\ edgeSeq' = r.seq
        /\ clock' = r.clock
        /\ last' = [op |-> "create_edge", source |-> source, relationship |-> relationship,
                    target |-> target, confidence |-> confidence, metadata |-> metadata,
                    exc |-> r.exc, ret |-> r.ret, caught |-> r.caught]
        /\ lastConf' = IF r.exc = "none"
                       THEN [x \in DOMAIN lastConf \cup {tr} |->
                               IF x = tr THEN confidence ELSE lastConf[x]]
                       ELSE lastConf
        /\ hist' = HistAfter(hist, nodes, r.nodes, <<source, target>>,
                             IF r.exc = "none" /\ EdgesOf(r.edges, tr) # {} THEN <<tr>> ELSE <<>>,
                             clock, r.clock)
  /\ ncalls' = ncalls + 1
  /\ pre' = [nodes |-> nodes, edges |-> edges]
  /\ out' = NoOut
  /\ UNCHANGED <<qres, raceVars, journalVars, starterVars>>

CreateEdge(source, relationship, target, confidence, metadata, fail) ==
  /\ ncalls < MaxCalls
  /\ DoCreateEdge(source, relationship, target, confidence, metadata, fail)

QueryEdges(source, relationship, target) ==
  /\ qres' = query_edges(edges, source, relationship, target)
  /\ last' = [NoCall EXCEPT !.op = "query_edges", !.source = source,
                            !.relationship = relationship, !.target = target]
  /\ pre' = [nodes |-> nodes, edges |-> edges]
  /\ UNCHANGED <<nodes, edges, edgeSeq, clock, ncalls, lastConf, raceVars, journalVars, readVars, starterVars>>

CallCreateNode == \E id \in Ids, m \in Metas : CreateNode(id, m, FALSE)

CallCreateEdge ==
  \E s \in Ids, r \in Rels \cup {NULL}, t \in Ids, c \in Confs, m \in Metas :
    CreateEdge(s, r, t, c, m, "none")

Next == CallCreateNode \/ CallCreateEdge

Spec == Init /\ [][Next]_vars

\* The same calls when a statement may raise a storage error.
FailConfs == {20, 90}

FailCreateNode == \E id \in Ids, fail \in BOOLEAN : CreateNode(id, PyNone, fail)

FailCreateEdge ==
  \E s \in Ids, r \in Rels \cup {NULL}, t \in Ids, c \in FailConfs, f \in FailPoints :
    CreateEdge(s, r, t, c, PyNone, f)

NextFail == FailCreateNode \/ FailCreateEdge

SpecFail == Init /\ [][NextFail]_vars

\* Edges written with the default confidence and no metadata, then queried;
\* ids, relationships and filters include the empty string.
DefaultConfidence == 50

QIds == {"", "a"}

QRels == {"", "r"}

QueryCreateEdge ==
  \E s \in QIds, r \in QRels, t \in QIds :
    CreateEdge(s, r, t, DefaultConfidence, PyNone, "none")

QueryCall ==
  \E s \in QIds \cup {NULL}, r \in QRels \cup {NULL}, t \in QIds \cup {NULL} :
    QueryEdges(s, r, t)

NextQuery == QueryCreateEdge \/ QueryCall

SpecQuery == Init /\ [][NextQuery]_vars

\* ------------------------------------------------------------------------
\* Two callers, each with its own connection to the same database file, run
\* create_edge on the same triple; a step is one statement with its commit.
\* A statement that fails inside the implicit transaction leaves the
\* transaction open, and with it the write lock, until the connection
\* commits or is closed; a writer that finds the lock taken waits, or gives
\* up with "database is locked" once the busy timeout has passed.
\* ------------------------------------------------------------------------
RaceConfidence == <<20, 90>>

RaceMetadata == <<PyNone, MetaK>>

InitRace ==
  /\ InitStore
  /\ InitStarter
  /\ \E s \in Ids, r \in Rels, t \in Ids :
       proc = [p \in Procs |->
                 [Idle EXCEPT !.source = s, !.relationship = r, !.target = t,
                              !.confidence = RaceConfidence[p],
                              !.metadata = RaceMetadata[p]]]

AllIdle == \A p \in Procs : proc[p].pc = "idle"

\* Calls made one after the other before the two callers start.
RaceSetupNode == AllIdle /\ \E id \in Ids : CreateNode(id, PyNone, FALSE)

RaceSetupEdge ==
  /\ AllIdle
  /\ CreateEdge(proc[1].source, proc[1].relationship, proc[1].target,
                DefaultConfidence, PyNone, "none")

RaceStart(p) ==
  /\ proc[p].pc = "idle"
  /\ proc' = [proc EXCEPT ![p].pc = "check_source"]
  /\ UNCHANGED <<nodes, edges, edgeSeq, clock, ncalls, last, pre, qres, lastConf, lock, journalVars, readVars, starterVars>>

\* create_node: `if not self.node_exists(node_id)`
RaceCheck(p, here, id, insert, skip) ==
  /\ proc[p].pc = here
  /\ proc' = [proc EXCEPT ![p].pc = IF node_exists(nodes, id) THEN skip ELSE insert]
  /\ UNCHANGED <<nodes, edges, edgeSeq, clock, ncalls, last, pre, qres, lastConf, lock, journalVars, readVars, starterVars>>

\* create_node: the INSERT INTO nodes and its commit; a primary-key failure
\* is not caught anywhere in create_edge.
RaceInsertNode(p, here, id, next) ==
  /\ proc[p].pc = here
  /\ lock = 0
  /\ clock' = clock + 1
  /\ IF NodePrimaryKeyViolated(nodes, id)
     THEN /\ proc' = [proc EXCEPT ![p].pc = "raised", ![p].exc = "IntegrityError"]
          /\ lock' = p
          /\ UNCHANGED nodes
     ELSE /\ nodes' = nodes \cup {[id |-> id, ts |-> clock + 1, created_by |-> "system",
                                   metadata |-> meta_json(PyNone)]}
          /\ proc' = [proc EXCEPT ![p].pc = next]
          /\ UNCHANGED lock
  /\ UNCHANGED <<edges, edgeSeq, ncalls, last, pre, qres, lastConf, journalVars, readVars, starterVars>>

RaceCheckSource(p) ==
  RaceCheck(p, "check_source", proc[p].source, "insert_source", "check_target")

RaceInsertSource(p) ==
  RaceInsertNode(p, "insert_source", proc[p].source, "check_target")

RaceCheckTarget(p) ==
  RaceCheck(p, "check_target", proc[p].target, "insert_target", "insert_edge")

RaceInsertTarget(p) ==
  RaceInsertNode(p, "insert_target", proc[p].target, "insert_edge")

\* The INSERT INTO edges inside `try`; on success its commit.
RaceInsertEdge(p) ==
  /\ proc[p].pc = "insert_edge"
  /\ lock = 0
  /\ clock' = clock + 1
  /\ LET a == proc[p]
         err == InsertEdgeError(nodes, edges, a.source, a.relationship, a.target)
         row == [id |-> edgeSeq + 1, source |-> a.source, relationship |-> a.relationship,
                 target |-> a.target, confidence |-> a.confidence, ts |-> clock + 1,
                 metadata |-> meta_json(a.metadata)]
     IN IF err = "ok"
        THEN /\ edges' = edges \cup {row}
             /\ edgeSeq' = edgeSeq + 1
             /\ proc' = [proc EXCEPT ![p].pc = "returned", ![p].ts = clock + 1,
                                     ![p].ret = PyInt(edgeSeq + 1)]
             /\ UNCHANGED lock
        ELSE /\ proc' = [proc EXCEPT ![p].pc = "update_edge", ![p].ts = clock + 1,
                                     ![p].caught = err]
             /\ lock' = p
             /\ UNCHANGED <<edges, edgeSeq>>
  /\ UNCHANGED <<nodes, ncalls, last, pre, qres, lastConf, journalVars, readVars, starterVars>>

\* `except sqlite3.IntegrityError`: the UPDATE and its commit.
RaceUpdateEdge(p) ==
  /\ proc[p].pc = "update_edge"
  /\ LET a == proc[p]
     IN edges' = UpdateEdge(edges, a.source, a.relationship, a.target,
                            a.confidence, a.ts, meta_json(a.metadata))
  /\ proc' = [proc EXCEPT ![p].pc = "returned", ![p].ret = PyNone]
  /\ lock' = 0
  /\ UNCHANGED <<nodes, edgeSeq, clock, ncalls, last, pre, qres, lastConf, journalVars, readVars, starterVars>>

\* The busy timeout passes while another connection holds the write lock:
\* sqlite3.OperationalError("database is locked").
RaceBusy(p) ==
  /\ proc[p].pc \in {"insert_source", "insert_target", "insert_edge"}
  /\ lock \notin {0, p}
  /\ proc' = [proc EXCEPT ![p].pc = "raised", ![p].exc = "OperationalError"]
  /\ UNCHANGED <<nodes, edges, edgeSeq, clock, ncalls, last, pre, qres, lastConf, lock, journalVars, readVars, starterVars>>

\* The caller whose call raised closes its connection (or exits): an open
\* transaction is rolled back and its lock released.
RaceClose(p) ==
  /\ proc[p].pc = "raised"
  /\ proc' = [proc EXCEPT ![p].pc = "closed"]
  /\ lock' = IF lock = p THEN 0 ELSE lock
  /\ UNCHANGED <<nodes, edges, edgeSeq, clock, ncalls, last, pre, qres, lastConf, journalVars, readVars, starterVars>>

NextRace ==
  \/ RaceSetupNode
  \/ RaceSetupEdge
  \/ \E p \in Procs :
       \/ RaceStart(p)
       \/ RaceCheckSource(p)
       \/ RaceInsertSource(p)
       \/ RaceCheckTarget(p)
       \/ RaceInsertTarget(p)
       \/ RaceInsertEdge(p)
       \/ RaceUpdateEdge(p)
       \/ RaceBusy(p)
       \/ RaceClose(p)

SpecRace == InitRace /\ [][NextRace]_vars

\* Upserts of one edge with every kind of metadata: omitted, empty, and
\* mappings with different keys.
MetaJ == PyDict(<< <<(<<"j">>), PyStr(<<"w">>)>> >>)

MetaKJ == PyDict(<< <<(<<"k">>), PyStr(<<"x">>)>>, <<(<<"j">>), PyStr(<<"w">>)>> >>)

UpsertMetas == {PyNone, PyDict(<<>>), MetaK, MetaJ, MetaKJ}

MetaCreateEdge == \E s \in Ids, t \in Ids, m \in UpsertMetas :
                    CreateEdge(s, "r", t, DefaultConfidence, m, "none")

NextMeta == MetaCreateEdge

SpecMeta == Init /\ [][NextMeta]_vars

\* ------------------------------------------------------------------------
\* GraphDB: listings, export, statistics and the unimplemented operations
\* ------------------------------------------------------------------------
\* The ways of listing the rows of a table ORDER BY ts DESC: every row once,
\* no row before a row with a larger ts; rows with equal ts come in any order.
OrderByTsDesc(T) ==
  {f \in [1..Cardinality(T) -> T] :
     /\ \A i, j \in DOMAIN f : i # j => f[i] # f[j]
     /\ \A i, j \in DOMAIN f : i < j => f[i].ts >= f[j].ts}

\* The node query in ascending order.
all_nodes_Ascending(N) ==
  {[i \in DOMAIN f |-> f[i].id] :
     f \in {g \in [1..Cardinality(N) -> N] :
              /\ \A i, j \in DOMAIN g : i # j => g[i] # g[j]
              /\ \A i, j \in DOMAIN g : i < j => g[i].ts <= g[j].ts}}

\* SELECT id FROM nodes ORDER BY ts DESC: the listings all_nodes may return.
all_nodes(N) == {[i \in DOMAIN f |-> f[i].id] : f \in OrderByTsDesc(N)}

\* The edge query in ascending order.
all_edges_Ascending(E) ==
  {f \in [1..Cardinality(E) -> E] :
     /\ \A i, j \in DOMAIN f : i # j => f[i] # f[j]
     /\ \A i, j \in DOMAIN f : i < j => f[i].ts <= f[j].ts}

\* SELECT * FROM edges ORDER BY ts DESC: the listings all_edges may return.
all_edges(E) == OrderByTsDesc(E)

\* json.loads(row["metadata"]) if row["metadata"] else {}
MetadataOf(column) ==
  IF column.t = "text" /\ column.v # <<>> THEN Loads(column.v).val ELSE PyDict(<<>>)

\* An export that leaves the metadata of the nodes out.
ExportNode_NoMetadata(N, node_id) ==
  LET row == CHOOSE n \in N : n.id = node_id
  IN [created |-> row.ts, metadata |-> PyDict(<<>>)]

\* The entry of node_id in the exported mapping:
\* SELECT * FROM nodes WHERE id = ? and the two exported fields.
ExportNode(N, node_id) ==
  LET row == CHOOSE n \in N : n.id = node_id
  IN [created |-> row.ts, metadata |-> MetadataOf(row.metadata)]

\* An export that takes the source of an edge for its target and the target
\* for its source.
ExportEdge_SwapsEnds(edge) ==
  [source |-> edge.target, relationship |-> edge.relationship, target |-> edge.source,
   confidence |-> edge.confidence, ts |-> edge.ts, metadata |-> MetadataOf(edge.metadata)]

\* One entry of the exported edge list.
ExportEdge(edge) ==
  [source |-> edge.source, relationship |-> edge.relationship, target |-> edge.target,
   confidence |-> edge.confidence, ts |-> edge.ts, metadata |-> MetadataOf(edge.metadata)]

\* The snapshots export_as_json may return when the clock reads clk + 1: a
\* mapping of the listed node ids, the edges in the order of a listing, and
\* the reading.
export_as_json(N, E, clk) ==
  {[nodes |-> [id \in {l[i] : i \in DOMAIN l} |-> ExportNode(N, id)],
    edges |-> [i \in DOMAIN f |-> ExportEdge(f[i])],
    exported |-> clk + 1] : l \in all_nodes(N), f \in all_edges(E)}

RECURSIVE SumConfidence(_)
SumConfidence(E) ==
  IF E = {} THEN 0
  ELSE LET e == CHOOSE x \in E : TRUE IN e.confidence + SumConfidence(E \ {e})

\* round(total / count, 2) in hundredths: a nearest whole number of
\* hundredths; when the quotient lies halfway between two of them the binary
\* floating-point value decides, so either neighbour may come out.
Round2(total, count) ==
  {r \in {total \div count, (total \div count) + 1} :
     2 * (IF r * count >= total THEN r * count - total ELSE total - r * count) <= count}

\* Statistics that add the confidences up without dividing by their number.
stats_SumNotMean(N, E) ==
  {[num_nodes |-> Cardinality(N), num_edges |-> Cardinality(E), avg_confidence |-> a] :
     a \in IF E = {} THEN {0} ELSE Round2(SumConfidence(E), 1)}

\* SELECT COUNT(*) FROM nodes, SELECT COUNT(*) FROM edges,
\* SELECT AVG(confidence) FROM edges (NULL on an empty table) `or 0`, round:
\* the results stats may return, avg_confidence in hundredths.
stats(N, E) ==
  {[num_nodes |-> Cardinality(N), num_edges |-> Cardinality(E), avg_confidence |-> a] :
     a \in IF E = {} \/ SumConfidence(E) = 0 THEN {0}
           ELSE Round2(SumConfidence(E), Cardinality(E))}

\* hollow, consume, covenant, mirror, sever, bloom and umbra have the body
\* `pass`: the store after each of them is the store before it.
hollow(N, E) == [nodes |-> N, edges |-> E]

consume(N, E, essence, hunger) == [nodes |-> N, edges |-> E]

covenant(N, E, pact, binding) == [nodes |-> N, edges |-> E]

mirror(N, E, reflection) == [nodes |-> N, edges |-> E]

\* A sever that deletes the edges from source to target.
sever_Deletes(N, E, source, target) ==
  [nodes |-> N, edges |-> {e \in E : ~(e.source = source /\ e.target = target)}]

sever(N, E, source, target) == [nodes |-> N, edges |-> E]

bloom(N, E, seed, soil) == [nodes |-> N, edges |-> E]

umbra(N, E) == [nodes |-> N, edges |-> E]

\* A read operation returns val; the store is left as it is.
Returns(name, val) ==
  /\ out' = [op |-> name, val |-> val]
  /\ UNCHANGED <<nodes, edges, edgeSeq, clock, ncalls, last, pre, qres, lastConf, hist,
                 raceVars, journalVars, starterVars>>

AllNodes == \E l \in all_nodes(nodes) : Returns("all_nodes", l)

AllEdges == \E l \in all_edges(edges) : Returns("all_edges", l)

Stats == \E r \in stats(nodes, edges) : Returns("stats", r)

\* export_as_json reads the clock once, after the tables.
ExportAsJson ==
  /\ clock < MaxClock
  /\ \E x \in export_as_json(nodes, edges, clock) : out' = [op |-> "export_as_json", val |-> x]
  /\ clock' = clock + 1
  /\ UNCHANGED <<nodes, edges, edgeSeq, ncalls, last, pre, qres, lastConf, hist, raceVars,
                 journalVars, starterVars>>

\* An unimplemented operation: it returns None.
GraphStub(name, r) ==
  /\ nodes' = r.nodes
  /\ edges' = r.edges
  /\ out' = [op |-> name, val |-> PyNone]
  /\ UNCHANGED <<edgeSeq, clock, ncalls, last, pre, qres, lastConf, hist, raceVars,
                 journalVars, starterVars>>

Hollow == GraphStub("hollow", hollow(nodes, edges))

Consume == \E essence \in Ids, hunger \in {DefaultConfidence} :
             GraphStub("consume", consume(nodes, edges, essence, hunger))

Covenant == \E pact \in Ids, binding \in {PyNone, MetaK} :
              GraphStub("covenant", covenant(nodes, edges, pact, binding))

Mirror == \E reflection \in Ids : GraphStub("mirror", mirror(nodes, edges, reflection))

Sever == \E source \in Ids, target \in Ids :
           GraphStub("sever", sever(nodes, edges, source, target))

Bloom == \E seed \in Ids, soil \in {PyNone, MetaK} :
           GraphStub("bloom", bloom(nodes, edges, seed, soil))

Umbra == GraphStub("umbra", umbra(nodes, edges))

\* Writes with every kind of metadata, then the listings and the export.
\* Each is a confidence and a metadata of a create_edge call.
ExportWrites == {<<20, PyNone>>, <<90, PyDict(<<>>)>>, <<20, MetaK>>, <<90, MetaKJ>>}

ExportCreateNode == \E id \in Ids, m \in {PyNone, MetaK} : CreateNode(id, m, FALSE)

ExportCreateEdge == \E s \in Ids, w \in ExportWrites :
                      CreateEdge(s, "r", "b", w[1], w[2], "none")

NextExport == ExportCreateNode \/ ExportCreateEdge \/ AllNodes \/ AllEdges \/ ExportAsJson

SpecExport == Init /\ [][NextExport]_vars

\* Edges of several confidences, then the statistics.
StatConfs == {20, 25, 90}

StatsCreateEdge ==
  /\ ncalls < MaxStatCalls
  /\ \E s \in Ids, t \in Ids, c \in StatConfs : DoCreateEdge(s, "r", t, c, PyNone, "none")

StatsCreateNode ==
  /\ ncalls < MaxStatCalls
  /\ \E id \in Ids : DoCreateNode(id, PyNone, FALSE)

NextStats == StatsCreateEdge \/ StatsCreateNode \/ Stats

SpecStats == Init /\ [][NextStats]_vars

\* Writes and listings under a wall clock that may be set back between two
\* calls (datetime.now() is the local time of day: a correction of the clock
\* or the end of daylight saving time moves it back).
ClockAdjust ==
  /\ ncalls < MaxListCalls
  /\ \E v \in 0..(clock - 1) : clock' = v
  /\ UNCHANGED <<nodes, edges, edgeSeq, ncalls, last, pre, qres, lastConf, out, hist,
                 raceVars, journalVars, starterVars>>

ListCreateNode ==
  /\ ncalls < MaxListCalls
  /\ \E id \in Ids : DoCreateNode(id, PyNone, FALSE)

ListCreateEdge ==
  /\ ncalls < MaxListCalls
  /\ \E s \in Ids, t \in Ids : DoCreateEdge(s, "r", t, DefaultConfidence, PyNone, "none")

NextList == ClockAdjust \/ ListCreateNode \/ ListCreateEdge \/ AllNodes \/ AllEdges

SpecList == Init /\ [][NextList]_vars

\* Every public operation of GraphDB, the writes with plain arguments.
OpsCreateNode == \E id \in Ids : CreateNode(id, PyNone, FALSE)

OpsCreateEdge == \E s \in Ids, t \in Ids :
                   CreateEdge(s, "r", t, DefaultConfidence, PyNone, "none")

OpsQueryEdges == \E s \in QIds : QueryEdges(s, "", "")

NextOps ==
  \/ OpsCreateNode
  \/ OpsCreateEdge
  \/ OpsQueryEdges
  \/ AllNodes
  \/ AllEdges
  \/ ExportAsJson
  \/ Stats
  \/ Hollow
  \/ Consume
  \/ Covenant
  \/ Mirror
  \/ Sever
  \/ Bloom
  \/ Umbra

SpecOps == Init /\ [][NextOps]_vars

\* ------------------------------------------------------------------------
\* LearningTracker
\* ------------------------------------------------------------------------
Digits == <<"0", "1", "2", "3", "4", "5", "6", "7", "8", "9">>

RECURSIVE DecimalText(_)
DecimalText(n) ==
  IF n < 10 THEN <<Digits[n + 1]>>
  ELSE DecimalText(n \div 10) \o <<Digits[(n % 10) + 1]>>

\* datetime.now().isoformat() of the clock reading n
isoformat(n) == <<"T">> \o DecimalText(n)

K_ts == <<"t", "s">>

K_type == <<"t", "y", "p", "e">>

K_subject == <<"s", "u", "b", "j", "e", "c", "t">>

K_reasoning == <<"r", "e", "a", "s", "o", "n", "i", "n", "g">>

K_action == <<"a", "c", "t", "i", "o", "n">>

K_result == <<"r", "e", "s", "u", "l", "t">>

K_tags == <<"t", "a", "g", "s">>

\* x or default
PyOr(x, default) == IF Truthy(x) THEN x ELSE default

\* The dictionary log_decision builds, ts being the clock reading.
LogEntry(ts, decision_type, subject, reasoning, action, result, tags) ==
  PyDict(<< <<K_ts, PyStr(isoformat(ts))>>,
            <<K_type, PyStr(decision_type)>>,
            <<K_subject, PyStr(subject)>>,
            <<K_reasoning, PyStr(reasoning)>>,
            <<K_action, PyStr(action)>>,
            <<K_result, PyOr(result, PyDict(<<>>))>>,
            <<K_tags, PyOr(tags, PyList(<<>>))>> >>)

\* The journal opened for writing ('w'), not for appending.
log_decision_Truncates(file, ts, decision_type, subject, reasoning, action, result, tags) ==
  Dumps(LogEntry(ts, decision_type, subject, reasoning, action, result, tags)) \o <<NL>>

\* The file after `with open(self.journal_path, 'a') as f:
\*                    f.write(json.dumps(entry) + "\n")`
log_decision(file, ts, decision_type, subject, reasoning, action, result, tags) ==
  file \o Dumps(LogEntry(ts, decision_type, subject, reasoning, action, result, tags))
       \o <<NL>>

LogTypes == {<<"e">>}

LogSubjects == {<<"a", NL, "b">>, <<BSL, "n">>, <<"}", ",", QUOTE>>}

LogReasonings == {<<"w", BSL>>}

LogActions == {<<>>, <<NL>>}

LogResults == {PyNone, PyDict(<<>>), MetaK}

LogTags == {PyNone, PyList(<<PyStr(<<"t">>), PyStr(<<"u", QUOTE>>)>>)}

LogDecision(decision_type, subject, reasoning, action, result, tags) ==
  /\ Len(logged) < MaxLog
  /\ clock' = clock + 1
  /\ journal' = log_decision(journal, clock + 1, decision_type, subject, reasoning,
                             action, result, tags)
  /\ logged' = Append(logged, [type |-> decision_type, subject |-> subject,
                               reasoning |-> reasoning, action |-> action,
                               result |-> result, tags |-> tags])
  /\ UNCHANGED <<nodes, edges, edgeSeq, ncalls, last, pre, qres, lastConf, raceVars, readVars, starterVars>>

CallLogDecision ==
  \E ty \in LogTypes, su \in LogSubjects, re \in LogReasonings, ac \in LogActions,
     rs \in LogResults, tg \in LogTags :
    LogDecision(ty, su, re, ac, rs, tg)

NextJournal == CallLogDecision

SpecJournal == Init /\ [][NextJournal]_vars

\* A value json.dumps cannot encode (a set): encoding it raises TypeError.
PySet == [t |-> "set", v |-> <<>>]

RECURSIVE Serializable(_)
Serializable(x) ==
  CASE x.t = "set" -> FALSE
    [] x.t = "dict" -> \A i \in DOMAIN x.v : Serializable(x.v[i][2])
    [] x.t = "list" -> \A i \in DOMAIN x.v : Serializable(x.v[i])
    [] OTHER -> TRUE

\* log_decision with its failures. The file is opened for appending, then
\* json.dumps runs (a TypeError leaves the file as it was), then the record
\* is written: with fails, the write raises OSError after cut characters of
\* the record reached the file.
log_decision_outcome(file, ts, decision_type, subject, reasoning, action, result, tags, fails, cut) ==
  IF ~Serializable(LogEntry(ts, decision_type, subject, reasoning, action, result, tags))
  THEN [file |-> file, exc |-> "TypeError"]
  ELSE LET whole == log_decision(file, ts, decision_type, subject, reasoning, action,
                                 result, tags)
       IN IF ~fails
          THEN [file |-> whole, exc |-> "none"]
          ELSE [file |-> SubSeq(whole, 1, Len(file) + cut), exc |-> "OSError"]

\* scar, whisper_back, burn and trace have the body `pass`: the file after
\* each of them is the file before it.
scar(file, mark, depth) == file

whisper_back(file, target) == file

burn(file, age) == file

trace(file, pattern) == file

\* The numbers of characters a failed write may leave behind, for a record
\* of n characters (its newline included).
Cuts(n) == {0, 1, n \div 2, n - 1, n}

TrackerSubjects == {<<"a", NL, "b">>}

TrackerResults == {PyNone, MetaK, PySet}

TryLogDecision(decision_type, subject, reasoning, action, result, tags, fails, cut) ==
  /\ ncalls < MaxLog
  /\ LET r == log_decision_outcome(journal, clock + 1, decision_type, subject, reasoning,
                                   action, result, tags, fails, cut)
     IN /\ journal' = r.file
        /\ last' = [NoCall EXCEPT !.op = "log_decision", !.exc = r.exc]
        /\ logged' = IF r.exc = "none"
                     THEN Append(logged, [type |-> decision_type, subject |-> subject,
                                          reasoning |-> reasoning, action |-> action,
                                          result |-> result, tags |-> tags])
                     ELSE logged
  /\ clock' = clock + 1
  /\ ncalls' = ncalls + 1
  /\ UNCHANGED <<nodes, edges, edgeSeq, pre, qres, lastConf, raceVars, readVars, starterVars>>

CallTryLogDecision ==
  \E ty \in LogTypes, su \in TrackerSubjects, re \in LogReasonings, ac \in LogActions,
     rs \in TrackerResults :
    \/ TryLogDecision(ty, su, re, ac, rs, PyNone, FALSE, 0)
    \/ \E cut \in Cuts(Len(log_decision(<<>>, clock + 1, ty, su, re, ac, PyNone, PyNone))) :
         TryLogDecision(ty, su, re, ac, rs, PyNone, TRUE, cut)

TrackerStub(name, file) ==
  /\ journal' = file
  /\ last' = [NoCall EXCEPT !.op = name]
  /\ UNCHANGED <<nodes, edges, edgeSeq, clock, ncalls, pre, qres, lastConf, logged,
                 raceVars, readVars, starterVars>>

Scar == \E mark \in TrackerSubjects, depth \in {1, 2} :
          TrackerStub("scar", scar(journal, mark, depth))

WhisperBack == \E target \in {PyNone, PyStr(<<"a">>)} :
                 TrackerStub("whisper_back", whisper_back(journal, target))

Burn == \E age \in {0, 1} : TrackerStub("burn", burn(journal, age))

Trace == \E pattern \in TrackerSubjects : TrackerStub("trace", trace(journal, pattern))

NextTracker == CallTryLogDecision \/ Scar \/ WhisperBack \/ Burn \/ Trace

SpecTracker == Init /\ [][NextTracker]_vars

\* ------------------------------------------------------------------------
\* Properties of the sequential store (specification Spec)
\* ------------------------------------------------------------------------
TheCall == <<last.source, last.relationship, last.target>>

\* C1: the store never holds two edges with the same (source, relationship,
\* target).
C1_TripleUnique ==
  \A e1 \in edges : \A e2 \in edges : Triple(e1) = Triple(e2) => e1 = e2

\* A second create_edge on a stored triple has run and met the UNIQUE constraint.
C1_Witness ==
  /\ last.op = "create_edge"
  /\ last.caught = "UNIQUE"
  /\ EdgesOf(pre.edges, TheCall) # {}
  /\ EdgesOf(edges, TheCall) # {}

\* C2: for every triple create_edge has returned for, exactly one edge is
\* stored and it carries the confidence of the most recent such call.
C2_LastWriteWins ==
  \A tr \in DOMAIN lastConf :
    tr[2] # NULL =>
      /\ Cardinality(EdgesOf(edges, tr)) = 1
      /\ \A e \in EdgesOf(edges, tr) : e.confidence = lastConf[tr]

\* The second call on a triple passed a confidence other than the stored one,
\* and the edge now holds it.
C2_Witness ==
  /\ last.op = "create_edge"
  /\ last.exc = "none"
  /\ \E o \in EdgesOf(pre.edges, TheCall) : o.confidence # last.confidence
  /\ \E e \in EdgesOf(edges, TheCall) : e.confidence = last.confidence

\* C3: the endpoints of every stored edge are stored nodes; after a
\* create_edge call that returned, both endpoints exist, and every node the
\* call added is bare (no metadata).
C3_EndpointsExist ==
  /\ \A e \in edges : e.source \in NodeIds(nodes) /\ e.target \in NodeIds(nodes)
  /\ (last.op = "create_edge" /\ last.exc = "none") =>
       /\ last.source \in NodeIds(nodes)
       /\ last.target \in NodeIds(nodes)
       /\ \A n \in nodes \ pre.nodes :
            n.id \in {last.source, last.target} /\ n.metadata = SqlNull

\* create_edge(a, r, b) has run on a store that held neither a nor b.
C3_Witness ==
  /\ last.op = "create_edge"
  /\ last.source # last.target
  /\ last.source \notin NodeIds(pre.nodes)
  /\ last.target \notin NodeIds(pre.nodes)
  /\ EdgesOf(edges, TheCall) # {}
  /\ NodeIds(nodes) = {last.source, last.target}

\* C4: create_node on an id that is already stored returns the id without
\* raising and leaves both tables as they were.
C4_CreateNodeIdempotent ==
  (last.op = "create_node" /\ last.source \in NodeIds(pre.nodes)) =>
    /\ last.exc = "none"
    /\ last.ret = PyStr(last.source)
    /\ nodes = pre.nodes
    /\ edges = pre.edges

\* create_node was repeated on a stored id with other metadata than the node has.
C4_Witness ==
  /\ last.op = "create_node"
  /\ \E n \in pre.nodes :
       n.id = last.source /\ n.metadata # meta_json(last.metadata) /\ n \in nodes

\* C8: every stored edge has a confidence within [0.0, 1.0].
C8_ConfidenceInRange ==
  \A e \in edges : 0 <= e.confidence /\ e.confidence <= ConfUnit

\* ------------------------------------------------------------------------
\* Properties of the store under failures (specification SpecFail)
\* ------------------------------------------------------------------------
\* C5: a create_edge call that raises leaves the persisted nodes and edges
\* exactly as they were before the call.
C5_FailedCallLeavesStore ==
  (last.op = "create_edge" /\ last.exc # "none") =>
    /\ nodes = pre.nodes
    /\ edges = pre.edges

\* C6: the only constraint failure create_edge absorbs is the duplicate
\* triple; a call whose insert failed on any other constraint raises.
C6_OnlyDuplicateAbsorbed ==
  (last.op = "create_edge" /\ last.exc = "none") =>
    last.caught \in {"none", "UNIQUE"}

\* ------------------------------------------------------------------------
\* Properties of query_edges (specification SpecQuery)
\* ------------------------------------------------------------------------
\* The stored edges that equal every filter that is not null.
ExactMatches(E, source, relationship, target) ==
  {e \in E : /\ (source # NULL => e.source = source)
             /\ (relationship # NULL => e.relationship = relationship)
             /\ (target # NULL => e.target = target)}

\* C7: query_edges returns exactly the stored edges that equal every non-null
\* filter (the empty string is a filter like any other string): every edge
\* when no filter is given, at most one when all three are given.
C7_QueryExactMatch ==
  last.op = "query_edges" =>
    /\ qres = ExactMatches(edges, last.source, last.relationship, last.target)
    /\ (last.source = NULL /\ last.relationship = NULL /\ last.target = NULL)
         => qres = edges
    /\ (last.source # NULL /\ last.relationship # NULL /\ last.target # NULL)
         => Cardinality(qres) <= 1

\* ------------------------------------------------------------------------
\* Properties of concurrent create_edge calls (specification SpecRace)
\* ------------------------------------------------------------------------
RaceOver == \A p \in Procs : proc[p].pc \in {"returned", "raised", "closed"}

RaceTriple == <<proc[1].source, proc[1].relationship, proc[1].target>>

\* The row carries the confidence, timestamp and metadata written by caller p.
WrittenBy(e, p) ==
  /\ proc[p].pc = "returned"
  /\ e.confidence = proc[p].confidence
  /\ e.ts = proc[p].ts
  /\ e.metadata = meta_json(proc[p].metadata)

\* C9: when two create_edge calls on the same triple have both ended, under
\* any interleaving of their steps, the store holds exactly one edge for the
\* triple and its confidence, timestamp and metadata are those of one call.
C9_RaceLeavesOneWholeEdge ==
  RaceOver =>
    /\ Cardinality(EdgesOf(edges, RaceTriple)) = 1
    /\ \A e \in EdgesOf(edges, RaceTriple) : \E p \in Procs : WrittenBy(e, p)

\* ------------------------------------------------------------------------
\* Properties of the journal (specification SpecJournal)
\* ------------------------------------------------------------------------
\* A reader of the journal: the file is cut into lines at each newline and
\* each line is decoded as one JSON text (objects, arrays, strings, null).
\* The k-th smallest member of a set of numbers.
Kth(S, k) == CHOOSE x \in S : Cardinality({y \in S : y < x}) = k - 1

\* The lines of the text in order, each without its newline; text after the
\* last newline is a line as well.
SplitLines(text) ==
  LET n == Len(text)
      ends == {i \in 1..n : text[i] = NL}
                \cup (IF n > 0 /\ text[n] # NL THEN {n + 1} ELSE {})
  IN [k \in 1..Cardinality(ends) |->
        SubSeq(text, IF k = 1 THEN 1 ELSE Kth(ends, k - 1) + 1, Kth(ends, k) - 1)]

\* The values recorded under key in a decoded object.
Field(obj, key) == {obj.v[i][2] : i \in {j \in DOMAIN obj.v : obj.v[j][1] = key}}

JournalLines == SplitLines(journal)

RecordMatches(line, call) ==
  LET r == Loads(line)
  IN /\ r.ok
     /\ r.val.t = "dict"
     /\ Field(r.val, K_type) = {PyStr(call.type)}
     /\ Field(r.val, K_subject) = {PyStr(call.subject)}
     /\ Field(r.val, K_reasoning) = {PyStr(call.reasoning)}
     /\ Field(r.val, K_action) = {PyStr(call.action)}
     /\ call.result = PyNone => Field(r.val, K_result) = {PyDict(<<>>)}
     /\ call.tags = PyNone => Field(r.val, K_tags) = {PyList(<<>>)}

\* C10: after N log_decision calls on a fresh journal the file has exactly N
\* lines, and line i decodes to a record whose type, subject, reasoning and
\* action are the arguments of call i, with result {} and tags [] where the
\* call omitted them.
C10_JournalRecordsCalls ==
  /\ Len(JournalLines) = Len(logged)
  /\ \A i \in DOMAIN logged :
       i \in DOMAIN JournalLines /\ RecordMatches(JournalLines[i], logged[i])

\* Two calls were logged, one with a newline and one with a quote and a brace
\* in its subject, the second leaving out result and tags.
C10_Witness ==
  /\ Len(logged) = 2
  /\ logged[1].subject = <<"a", NL, "b">>
  /\ logged[2].subject = <<"}", ",", QUOTE>>
  /\ logged[2].result = PyNone
  /\ logged[2].tags = PyNone
  /\ Len(JournalLines) = 2

\* ------------------------------------------------------------------------
\* Properties of the LearningTracker operations (specification SpecTracker)
\* ------------------------------------------------------------------------
IsPrefix(a, b) == Len(a) <= Len(b) /\ SubSeq(b, 1, Len(a)) = a

\* C11: the journal is append-only: across every LearningTracker operation
\* (log_decision that succeeds or fails, scar, whisper_back, burn, trace) the
\* file content before the operation is a prefix of the content after it.
C11_JournalAppendOnly == [][IsPrefix(journal, journal')]_vars

\* A log_decision whose write failed midway, after a record had been written.
C11_Witness ==
  /\ last.op = "log_decision"
  /\ last.exc = "OSError"
  /\ Len(logged) >= 1
  /\ journal # <<>>
  /\ journal[Len(journal)] # NL

\* ------------------------------------------------------------------------
\* Properties of the whole interface of GraphDB (specification SpecOps)
\* ------------------------------------------------------------------------
Triples(E) == {Triple(e) : e \in E}

\* C12: across every public operation of GraphDB (create_node, create_edge,
\* the queries, the export, the statistics and hollow, consume, covenant,
\* mirror, sever, bloom, umbra) no node id and no edge triple is removed: the
\* set of node ids and the set of edge triples only grow.
C12_NothingRemoved ==
  [][NodeIds(nodes) \subseteq NodeIds(nodes') /\ Triples(edges) \subseteq Triples(edges')]_vars

\* sever has been called on a pair of nodes joined by an edge.
C12_Witness ==
  /\ out.op = "sever"
  /\ \E e \in edges : e.source # e.target
  /\ Cardinality(nodes) = Cardinality(Ids)

\* ------------------------------------------------------------------------
\* Further properties of the sequential store (specification Spec)
\* ------------------------------------------------------------------------
\* C13: the creation timestamp of a node never changes: every stored node is
\* stored with the same timestamp after any operation, create_node on the
\* same id with other metadata and create_edge naming the node included.
C13_NodeTimestampFixed ==
  [][\A n \in nodes : \E m \in nodes' : m.id = n.id /\ m.ts = n.ts]_vars

\* create_edge wrote an edge between two nodes that were stored before the call.
C13_Witness ==
  /\ last.op = "create_edge"
  /\ last.exc = "none"
  /\ EdgesOf(edges, TheCall) # {}
  /\ {last.source, last.target} \subseteq NodeIds(pre.nodes)
  /\ \A e \in EdgesOf(edges, TheCall) : \A n \in nodes : n.ts < e.ts

\* ------------------------------------------------------------------------
\* Properties of the metadata of an edge (specification SpecMeta)
\* ------------------------------------------------------------------------
\* The keys of a mapping.
KeysOf(d) == {d.v[i][1] : i \in DOMAIN d.v}

SameEdge(entry, row) ==
  /\ entry.source = row.source
  /\ entry.relationship = row.relationship
  /\ entry.target = row.target
  /\ entry.confidence = row.confidence
  /\ entry.ts = row.ts

\* C15: export_as_json is complete with respect to the listings: the keys of
\* its nodes mapping are exactly the ids all_nodes returns, and its edges
\* sequence has exactly one entry for each edge all_edges returns, with the
\* same source, relationship, target, confidence and timestamp.
C15_ExportComplete ==
  out.op = "export_as_json" =>
    /\ \A l \in all_nodes(nodes) : DOMAIN out.val.nodes = {l[i] : i \in DOMAIN l}
    /\ \A f \in all_edges(edges) :
         /\ \A i \in DOMAIN f :
              Cardinality({j \in DOMAIN out.val.edges : SameEdge(out.val.edges[j], f[i])}) = 1
         /\ \A j \in DOMAIN out.val.edges :
              Cardinality({i \in DOMAIN f : SameEdge(out.val.edges[j], f[i])}) = 1

\* An export of a store with two nodes and two edges of different confidence.
C15_Witness ==
  /\ out.op = "export_as_json"
  /\ Cardinality(DOMAIN out.val.nodes) = Cardinality(Ids)
  /\ \E i, j \in DOMAIN out.val.edges :
       out.val.edges[i].confidence # out.val.edges[j].confidence

\* The tables a snapshot describes: a node row for each key of its nodes
\* mapping (created_by is "system" on every row create_node writes) and an
\* edge row, without its id, for each entry of its edges sequence.
RebuiltNodes(x) ==
  {[id |-> id, ts |-> x.nodes[id].created, created_by |-> "system",
    metadata |-> IF x.nodes[id].metadata = PyDict(<<>>) THEN SqlNull
                 ELSE SqlText(Dumps(x.nodes[id].metadata))] : id \in DOMAIN x.nodes}

RebuiltEdges(x) ==
  {[source |-> x.edges[i].source, relationship |-> x.edges[i].relationship,
    target |-> x.edges[i].target, confidence |-> x.edges[i].confidence,
    ts |-> x.edges[i].ts,
    metadata |-> IF x.edges[i].metadata = PyDict(<<>>) THEN SqlNull
                 ELSE SqlText(Dumps(x.edges[i].metadata))] : i \in DOMAIN x.edges}

\* The fields of the stored edges the claim speaks of.
EdgeFields(E) ==
  {[source |-> e.source, relationship |-> e.relationship, target |-> e.target,
    confidence |-> e.confidence, ts |-> e.ts, metadata |-> e.metadata] : e \in E}

\* C16: the export is lossless: the snapshot, its export timestamp apart,
\* determines every field of every node (id, creation time, created_by,
\* metadata) and of every edge (source, relationship, target, confidence,
\* update time, metadata), so two reachable stores that differ in one of
\* these fields have different snapshots. The tables rebuilt from the
\* snapshot alone are the stored tables.
C16_ExportLossless ==
  out.op = "export_as_json" =>
    /\ RebuiltNodes(out.val) = nodes
    /\ RebuiltEdges(out.val) = EdgeFields(edges)

\* An export of a store that holds a node with metadata, a node without and
\* an edge with a two-key metadata.
C16_Witness ==
  /\ out.op = "export_as_json"
  /\ \E n \in nodes : n.metadata # SqlNull
  /\ \E n \in nodes : n.metadata = SqlNull
  /\ \E e \in edges : e.metadata = SqlText(Dumps(MetaKJ))

\* ------------------------------------------------------------------------
\* Properties of the statistics (specification SpecStats)
\* ------------------------------------------------------------------------
\* The sum of the confidences stored for the triples in S, in hundredths.
RECURSIVE TotalConfidence(_)
TotalConfidence(S) ==
  IF S = {} THEN 0
  ELSE LET tr == CHOOSE x \in S : TRUE
       IN (CHOOSE e \in EdgesOf(edges, tr) : TRUE).confidence + TotalConfidence(S \ {tr})

\* C17: stats reports as node count the number of distinct stored node ids,
\* as edge count the number of distinct stored triples, and as average
\* confidence the mean of the stored confidences rounded to two decimals (a
\* nearest number of hundredths), or 0 when no edge is stored.
C17_StatsCounts ==
  out.op = "stats" =>
    /\ out.val.num_nodes = Cardinality(NodeIds(nodes))
    /\ out.val.num_edges = Cardinality(Triples(edges))
    /\ edges = {} => out.val.avg_confidence = 0
    /\ edges # {} =>
         LET n == Cardinality(Triples(edges))
             total == TotalConfidence(Triples(edges))
             d == out.val.avg_confidence * n - total
         IN 2 * (IF d >= 0 THEN d ELSE 0 - d) <= n

\* The statistics after three calls of which one was an upsert, the nodes
\* created by create_edge alone, the mean not a whole number of hundredths.
C17_Witness ==
  /\ out.op = "stats"
  /\ ncalls = 3
  /\ Cardinality(edges) = 2
  /\ Cardinality(nodes) = 2
  /\ TotalConfidence(Triples(edges)) % 2 = 1

\* ------------------------------------------------------------------------
\* Properties of the listings (specification SpecList)
\* ------------------------------------------------------------------------
\* The clock readings recorded in the history s strictly increase.
Increasing(s) == \A i, j \in DOMAIN s : i < j => s[i].at < s[j].at

\* The sequence s from its last member to its first.
Reversed(s) == [i \in DOMAIN s |-> s[Len(s) + 1 - i]]

\* Every create_edge call left the clock reading it took on its edge.
EdgeTimestampsRefreshed ==
  \A i \in DOMAIN hist.touched :
    /\ EdgesOf(edges, hist.touched[i].tr) # {}
    /\ \A e \in EdgesOf(edges, hist.touched[i].tr) : e.ts = hist.touched[i].at

\* The listing l holds every stored edge exactly once.
ListsEveryEdge(l) ==
  /\ {l[i] : i \in DOMAIN l} = edges
  /\ Len(l) = Cardinality(edges)

\* The listing l is in the order of the most recent create-or-update calls,
\* the most recent first.
InCallOrder(l) ==
  [i \in DOMAIN l |-> Triple(l[i])]
    = Reversed([i \in DOMAIN hist.touched |-> hist.touched[i].tr])

\* C18 as stated: every create_edge call refreshes the timestamp of its edge
\* and all_edges returns all edges ordered by the time of their most recent
\* create-or-update call, most recent first, so that an edge upserted again
\* is listed ahead of every edge written before that upsert.
C18_ListedByCallTime ==
  /\ EdgeTimestampsRefreshed
  /\ out.op = "all_edges" => ListsEveryEdge(out.val) /\ InCallOrder(out.val)

\* C18, amended: every create_edge call sets the timestamp of its edge to the
\* clock reading of that call, on insert and on update alike, and all_edges
\* returns all edges in non-increasing order of their timestamps; when the
\* readings of the calls strictly increase this is the order of their most
\* recent create-or-update call, most recent first, and an edge upserted
\* again is listed ahead of every edge written before that upsert.
C18_ListedByTimestamp ==
  /\ EdgeTimestampsRefreshed
  /\ out.op = "all_edges" =>
       /\ ListsEveryEdge(out.val)
       /\ \A i, j \in DOMAIN out.val : i < j => out.val[i].ts >= out.val[j].ts
       /\ Increasing(hist.touched) => InCallOrder(out.val)

\* A listing, under increasing readings, in which the edge written first and
\* upserted last comes ahead of an edge written in between.
C18_Witness ==
  /\ out.op = "all_edges"
  /\ Increasing(hist.touched)
  /\ Len(out.val) = 2
  /\ out.val[1].id < out.val[2].id
  /\ InCallOrder(out.val)

\* Every stored node carries the clock reading taken when it was created,
\* whatever was called on its id afterwards.
NodeTimestampsKept ==
  /\ {hist.born[i].id : i \in DOMAIN hist.born} = NodeIds(nodes)
  /\ \A i \in DOMAIN hist.born :
       \A n \in nodes : n.id = hist.born[i].id => n.ts = hist.born[i].at

\* The listing l holds every stored node id exactly once.
ListsEveryNode(l) ==
  /\ {l[i] : i \in DOMAIN l} = NodeIds(nodes)
  /\ Len(l) = Cardinality(NodeIds(nodes))

\* The listing l is in the order of creation, the most recent first (of the
\* two nodes one create_edge call creates the source is the earlier one).
InCreationOrder(l) == l = Reversed([i \in DOMAIN hist.born |-> hist.born[i].id])

\* C19 as stated: all_nodes returns every stored node id exactly once,
\* ordered by creation, most recently created first; the nodes create_edge
\* creates count by their own creation moment, source before target, and a
\* repeated create_node on a stored id does not move it.
C19_NodesByCreation ==
  out.op = "all_nodes" => ListsEveryNode(out.val) /\ InCreationOrder(out.val)

\* C19, amended: all_nodes returns every stored node id exactly once, in
\* non-increasing order of the creation timestamps, which later calls never
\* change; when the clock readings of the creations strictly increase this is
\* the order of creation, most recently created first, source before target
\* for the nodes of one create_edge call.
C19_NodesByTimestamp ==
  /\ NodeTimestampsKept
  /\ out.op = "all_nodes" =>
       /\ ListsEveryNode(out.val)
       /\ \A i, j \in DOMAIN out.val : i < j =>
            \A n, m \in nodes : (n.id = out.val[i] /\ m.id = out.val[j]) => n.ts >= m.ts
       /\ Increasing(hist.born) => InCreationOrder(out.val)

\* A listing, under increasing readings, of two nodes created by one
\* create_edge call, after create_node was repeated on the source: the
\* target is listed first.
C19_Witness ==
  /\ out.op = "all_nodes"
  /\ Increasing(hist.born)
  /\ Len(hist.born) = 2
  /\ hist.born[2].at = hist.born[1].at + 1
  /\ last.op = "create_node"
  /\ last.source = hist.born[1].id
  /\ out.val = <<hist.born[2].id, hist.born[1].id>>

\* ------------------------------------------------------------------------
\* The value create_edge returns (specification Spec)
\* ------------------------------------------------------------------------
\* C20: create_edge returns a new edge identifier, different from every
\* identifier returned before, exactly when the call inserts a new triple,
\* and returns None exactly when the triple was stored already and the call
\* updated it.
C20_ReturnTellsInsert ==
  (last.op = "create_edge" /\ last.exc = "none") =>
    LET existed == EdgesOf(pre.edges, TheCall) # {}
        stored == EdgesOf(edges, TheCall) # {}
    IN /\ last.ret.t = "int" <=> (~existed /\ stored)
       /\ last.ret.t = "int" =>
            /\ last.ret.v \notin {e.id : e \in pre.edges}
            /\ \A e \in EdgesOf(edges, TheCall) : e.id = last.ret.v
       /\ last.ret = PyNone <=> (existed /\ stored)

\* ------------------------------------------------------------------------
\* tarot_deck.py: the deck and the positions of the spread
\* ------------------------------------------------------------------------
MAJOR_ARCANA ==
  <<
    "The Fool", "The Magician", "The High Priestess", "The Empress", "The Emperor",
    "The Hierophant", "The Lovers", "The Chariot", "Strength", "The Hermit",
    "Wheel of Fortune", "Justice", "The Hanged Man", "Death", "Temperance",
    "The Devil", "The Tower", "The Star", "The Moon", "The Sun", "Judgement",
    "The World" >>

WANDS ==
  <<
    "Ace of Wands", "Two of Wands", "Three of Wands", "Four of Wands", "Five of Wands",
    "Six of Wands", "Seven of Wands", "Eight of Wands", "Nine of Wands",
    "Ten of Wands", "Page of Wands", "Knight of Wands", "Queen of Wands",
    "King of Wands" >>

CUPS ==
  <<
    "Ace of Cups", "Two of Cups", "Three of Cups", "Four of Cups", "Five of Cups",
    "Six of Cups", "Seven of Cups", "Eight of Cups", "Nine of Cups", "Ten of Cups",
    "Page of Cups", "Knight of Cups", "Queen of Cups", "King of Cups" >>

SWORDS ==
  <<
    "Ace of Swords", "Two of Swords", "Three of Swords", "Four of Swords",
    "Five of Swords", "Six of Swords", "Seven of Swords", "Eight of Swords",
    "Nine of Swords", "Ten of Swords", "Page of Swords", "Knight of Swords",
    "Queen of Swords", "King of Swords" >>

PENTACLES ==
  <<
    "Ace of Pentacles", "Two of Pentacles", "Three of Pentacles", "Four of Pentacles",
    "Five of Pentacles", "Six of Pentacles", "Seven of Pentacles",
    "Eight of Pentacles", "Nine of Pentacles", "Ten of Pentacles", "Page of Pentacles",
    "Knight of Pentacles", "Queen of Pentacles", "King of Pentacles" >>

FULL_DECK == MAJOR_ARCANA \o WANDS \o CUPS \o SWORDS \o PENTACLES

SPREAD_POSITIONS ==
  <<
    [number |-> 1, meaning |-> "foundation", layout |-> "center",
     description |-> "What you're built on"],
    [number |-> 2, meaning |-> "challenge", layout |-> "left",
     description |-> "What you're facing"],
    [number |-> 3, meaning |-> "outcome", layout |-> "right",
     description |-> "Where this is heading"],
    [number |-> 4, meaning |-> "hidden", layout |-> "above",
     description |-> "What you're not seeing"],
    [number |-> 5, meaning |-> "self", layout |-> "center",
     description |-> "How you see yourself"],
    [number |-> 6, meaning |-> "other", layout |-> "below",
     description |-> "External forces"],
    [number |-> 7, meaning |-> "hopes", layout |-> "upper_left",
     description |-> "What you're reaching for"],
    [number |-> 8, meaning |-> "fears", layout |-> "upper_right",
     description |-> "What you're afraid of"],
    [number |-> 9, meaning |-> "advice", layout |-> "lower_left",
     description |-> "What the spread suggests"],
    [number |-> 10, meaning |-> "synthesis", layout |-> "lower_right",
     description |-> "How it all comes together"] >>

get_deck == FULL_DECK

get_positions == SPREAD_POSITIONS

\* ------------------------------------------------------------------------
\* seed_tarot_spread.py: TarotSpreadSeeder
\*
\* A path is the text pathlib prints for it. A 32-bit number is the pair of
\* its 16-bit halves, the high half first. The generator of module random is
\* a record [seed, pos]: the Mersenne Twister stream that random.seed(seed)
\* starts, and the number of 32-bit words taken from it since.
\* ------------------------------------------------------------------------
\* The working directories and the instance_path arguments of the model.
Dirs == {<<"/", "a">>, <<"/", "b">>}

PathArgs == {PyNone, PyStr(<<"i", "n", "s", "t">>)}

\* PurePath.is_absolute and Path.absolute, the latter in working directory dir.
is_absolute(p) == p # <<>> /\ p[1] = "/"

absolute(p, dir) == IF is_absolute(p) THEN p ELSE dir \o <<"/">> \o p

\* int(hashlib.sha256(path_str.encode()).hexdigest()[:8], 16), tabulated for
\* the absolute paths of the model.
Sha256Head(path_str) ==
  CASE path_str = <<"/", "a">> -> <<27216, 56453>>
    [] path_str = <<"/", "b">> -> <<38930, 45241>>
    [] path_str = <<"/", "a", "/", "i", "n", "s", "t">> -> <<8509, 45976>>
    [] path_str = <<"/", "b", "/", "i", "n", "s", "t">> -> <<3277, 58226>>

hash_path(instance_path, dir) == Sha256Head(absolute(instance_path, dir))

\* TarotSpreadSeeder.__init__ in working directory dir (the deck and the
\* positions are the module's get_deck and get_positions).
TarotSpreadSeeder(instance_path, dir) ==
  LET path == IF Truthy(instance_path) THEN instance_path.v ELSE dir
  IN [instance_path |-> path, seed_value |-> hash_path(path, dir)]

\* The seeds of the model. The first words genrand_uint32 yields after
\* random.seed(a) are tabulated for them.
TarotSeeds == {Sha256Head(absolute(p, d)) : p \in {<<"i", "n", "s", "t">>} \cup Dirs, d \in Dirs}

\* The words after random.seed(0x6a50dc85).
Stream1 ==
  << <<30853, 19152>>, <<14449, 26321>>, <<51694, 30162>>, <<43285, 62123>>,
        <<44417, 45869>>, <<36898, 7387>>, <<43436, 48902>>, <<57317, 29463>>,
        <<22996, 28054>>, <<61821, 42978>>, <<43235, 36948>>, <<58822, 4958>>,
        <<64427, 52002>>, <<3611, 34032>>, <<54073, 47461>>, <<19472, 30990>>,
        <<195, 45858>>, <<53917, 59212>>, <<58122, 60708>>, <<62877, 33714>>,
        <<30266, 28788>>, <<35282, 24887>>, <<60563, 27737>>, <<49467, 62700>>,
        <<50299, 47532>>, <<48546, 54533>>, <<36178, 58881>>, <<23780, 45976>>,
        <<49394, 13063>>, <<34803, 63139>>, <<457, 33117>>, <<16632, 43485>>,
        <<30623, 44436>>, <<35820, 38152>>, <<12200, 33972>>, <<3605, 14287>>,
        <<1216, 62110>>, <<59918, 63747>>, <<60999, 30935>>, <<45587, 60774>>,
        <<21503, 28787>>, <<45163, 19524>>, <<54069, 61496>>, <<51377, 35859>>,
        <<43372, 9352>>, <<20065, 45573>>, <<65083, 34659>>, <<7534, 40516>>,
        <<57661, 38420>>, <<23221, 8876>>, <<16278, 12845>>, <<62575, 37872>>,
        <<35859, 32750>>, <<52837, 62995>>, <<16949, 32680>>, <<5354, 48588>>,
        <<28245, 13647>>, <<34843, 63342>>, <<48277, 14060>>, <<39674, 1299>>,
        <<8100, 59622>>, <<55411, 30239>>, <<23783, 34007>>, <<30623, 18905>>,
        <<33190, 53707>>, <<40037, 47151>>, <<49097, 40655>>, <<63025, 2821>>,
        <<50675, 63328>>, <<43186, 2767>>, <<26521, 3678>>, <<60741, 61222>>,
        <<10325, 63958>>, <<24840, 10789>>, <<38663, 58796>>, <<38243, 15163>>,
        <<8404, 13645>>, <<49455, 8566>>, <<51793, 52893>>, <<10640, 61993>>,
        <<38189, 1853>>, <<24680, 11874>>, <<49560, 34207>>, <<47086, 56067>>,
        <<58822, 38713>>, <<51316, 1919>>, <<48958, 18083>>, <<7745, 57173>>,
        <<20457, 22211>>, <<61769, 2690>>, <<34035, 23557>>, <<21406, 11810>>,
        <<840, 34138>>, <<63397, 4073>>, <<8998, 35692>>, <<2920, 40841>>,
        <<26850, 3809>>, <<30194, 46428>>, <<28606, 15553>>, <<33176, 37300>>,
        <<33499, 54666>>, <<50843, 56665>>, <<59489, 18157>>, <<8782, 41008>>,
        <<55167, 14522>>, <<14565, 8459>>, <<49315, 15846>>, <<36254, 48353>>,
        <<37167, 696>>, <<11381, 49113>>, <<9503, 13552>>, <<22291, 4771>>,
        <<37353, 16188>>, <<45967, 24064>>, <<34138, 37473>>, <<35421, 24513>>,
        <<25845, 54933>>, <<52399, 21249>>, <<62140, 41638>>, <<4861, 9671>>,
        <<44192, 18080>>, <<54896, 37868>>, <<50913, 45431>>, <<43600, 54597>>,
        <<63845, 55252>>, <<17592, 62979>>, <<30560, 57650>>, <<34329, 34169>> >>

\* The words after random.seed(0x9812b0b9).
Stream2 ==
  << <<28599, 27520>>, <<46593, 48756>>, <<5308, 481>>, <<5379, 42582>>,
        <<20241, 59175>>, <<17464, 17341>>, <<14997, 45161>>, <<11059, 33800>>,
        <<41304, 49644>>, <<36096, 33878>>, <<5088, 11184>>, <<6939, 63182>>,
        <<16539, 39483>>, <<40043, 31469>>, <<55783, 29535>>, <<11731, 52897>>,
        <<4310, 18899>>, <<62808, 1134>>, <<10054, 4193>>, <<35413, 55134>>,
        <<37250, 6447>>, <<8857, 31002>>, <<32816, 27528>>, <<53551, 20199>>,
        <<44050, 26591>>, <<36775, 56727>>, <<25874, 12772>>, <<64996, 56333>>,
        <<19812, 17088>>, <<48392, 18832>>, <<65182, 19668>>, <<25713, 13815>>,
        <<5351, 51139>>, <<26071, 47657>>, <<8599, 63439>>, <<10981, 2639>>,
        <<2962, 9844>>, <<11035, 46701>>, <<59896, 5553>>, <<53215, 18399>>,
        <<27830, 15179>>, <<42284, 41534>>, <<32742, 51559>>, <<38104, 14471>>,
        <<27519, 50464>>, <<56324, 9712>>, <<19304, 58074>>, <<53159, 33722>>,
        <<65444, 45708>>, <<25207, 43041>>, <<36292, 53575>>, <<19286, 63745>>,
        <<7472, 861>>, <<1314, 14506>>, <<47553, 24227>>, <<11421, 54544>>,
        <<13210, 25892>>, <<10079, 25650>>, <<42215, 14798>>, <<40336, 35635>>,
        <<45115, 54765>>, <<10640, 7100>>, <<25442, 16857>>, <<18471, 13430>>,
        <<43859, 4653>>, <<12795, 41368>>, <<56258, 4759>>, <<35436, 45086>>,
        <<28164, 24221>>, <<38097, 47568>>, <<41594, 5159>>, <<49629, 38361>>,
        <<45013, 15725>>, <<3268, 47353>>, <<37408, 43093>>, <<26653, 34478>>,
        <<34262, 63488>>, <<27079, 38898>>, <<1292, 16991>>, <<64849, 35140>>,
        <<55968, 45177>>, <<24117, 5101>>, <<61640, 34139>>, <<12726, 1796>>,
        <<63149, 20525>>, <<61669, 31764>>, <<46535, 13082>>, <<23919, 63482>>,
        <<16977, 43774>>, <<10791, 50813>>, <<57578, 7387>>, <<25616, 49641>>,
        <<52582, 58292>>, <<1691, 28975>>, <<4875, 49694>>, <<14919, 51912>>,
        <<55386, 47980>>, <<32676, 44467>>, <<18905, 42890>>, <<6590, 20526>>,
        <<9159, 28120>>, <<50613, 17243>>, <<13746, 5353>>, <<1840, 42437>>,
        <<45262, 30901>>, <<14265, 2510>>, <<7607, 40527>>, <<36744, 14023>>,
        <<10346, 40936>>, <<18160, 2190>>, <<18024, 18009>>, <<31264, 54035>>,
        <<24174, 29999>>, <<56608, 32687>>, <<24339, 59493>>, <<5706, 10722>>,
        <<58833, 15792>>, <<2605, 17222>>, <<40961, 13325>>, <<34647, 19525>>,
        <<10685, 5066>>, <<63092, 37104>>, <<58541, 32843>>, <<26074, 16050>>,
        <<755, 2385>>, <<41331, 57282>>, <<60549, 47725>>, <<14634, 34169>> >>

\* The words after random.seed(0x213db398).
Stream3 ==
  << <<48215, 63571>>, <<16365, 58930>>, <<2550, 53295>>, <<55390, 32127>>,
        <<46000, 11405>>, <<20614, 56545>>, <<22000, 22970>>, <<14788, 63735>>,
        <<31986, 31348>>, <<16877, 31123>>, <<34106, 64057>>, <<49327, 26622>>,
        <<22188, 16431>>, <<56788, 60859>>, <<12757, 24385>>, <<11392, 42818>>,
        <<20227, 20145>>, <<46316, 14581>>, <<31712, 63294>>, <<51331, 23197>>,
        <<57165, 46364>>, <<8384, 59454>>, <<47522, 65449>>, <<37905, 40467>>,
        <<55568, 54875>>, <<7764, 37808>>, <<33413, 15726>>, <<44110, 56868>>,
        <<7151, 31141>>, <<1814, 17974>>, <<18727, 57882>>, <<57718, 23492>>,
        <<59005, 35591>>, <<12740, 19525>>, <<1331, 34076>>, <<48603, 60110>>,
        <<4477, 15510>>, <<40095, 23622>>, <<12083, 61869>>, <<52222, 39577>>,
        <<45630, 31102>>, <<44297, 27966>>, <<25378, 35449>>, <<28451, 7115>>,
        <<23562, 11433>>, <<7019, 43375>>, <<20851, 63957>>, <<21591, 47932>>,
        <<42633, 52897>>, <<41678, 58853>>, <<51439, 45085>>, <<28322, 9619>>,
        <<46883, 44108>>, <<2396, 64612>>, <<32324, 52019>>, <<64040, 53351>>,
        <<41560, 53698>>, <<35674, 50215>>, <<50733, 46093>>, <<21616, 22330>>,
        <<12866, 62375>>, <<46530, 14530>>, <<7824, 8365>>, <<51221, 8120>>,
        <<59104, 65529>>, <<44652, 48808>>, <<20668, 34040>>, <<14389, 7179>>,
        <<26273, 60033>>, <<46287, 22601>>, <<44190, 40464>>, <<10966, 2204>>,
        <<32471, 3572>>, <<1783, 64736>>, <<10652, 50621>>, <<64645, 49804>>,
        <<46547, 13283>>, <<32367, 27261>>, <<11103, 35129>>, <<64888, 38782>>,
        <<48844, 39925>>, <<19065, 827>>, <<8389, 43823>>, <<22364, 27569>>,
        <<84, 24347>>, <<1269, 1824>>, <<3853, 31693>>, <<23799, 42295>>,
        <<8061, 47101>>, <<19553, 61060>>, <<45281, 13333>>, <<1687, 54297>>,
        <<63966, 54020>>, <<51883, 46930>>, <<27566, 60065>>, <<61098, 44974>>,
        <<3842, 24165>>, <<54406, 53687>>, <<6810, 30304>>, <<35649, 15490>>,
        <<55026, 29379>>, <<15184, 44649>>, <<38630, 20043>>, <<45033, 21076>>,
        <<60252, 47325>>, <<57505, 2389>>, <<4037, 13687>>, <<7029, 24733>>,
        <<57038, 16293>>, <<19213, 603>>, <<54091, 38704>>, <<16780, 1554>>,
        <<29323, 15528>>, <<59820, 27081>>, <<42024, 62781>>, <<46871, 50778>>,
        <<62192, 40090>>, <<25823, 39168>>, <<53173, 60732>>, <<34680, 17046>>,
        <<48331, 30901>>, <<53026, 59423>>, <<33397, 50803>>, <<37112, 40895>>,
        <<29020, 58808>>, <<54720, 12625>>, <<44283, 24425>>, <<16564, 32057>> >>

\* The words after random.seed(0x0ccde372).
Stream4 ==
  << <<33013, 33267>>, <<33084, 55440>>, <<40611, 56625>>, <<9010, 567>>,
        <<6279, 17362>>, <<62523, 32167>>, <<13941, 26055>>, <<24575, 15862>>,
        <<33106, 36155>>, <<13901, 31321>>, <<20548, 27406>>, <<34577, 30805>>,
        <<34856, 39665>>, <<177, 21232>>, <<52294, 41146>>, <<40887, 37816>>,
        <<44494, 41830>>, <<9821, 53697>>, <<1660, 36090>>, <<58929, 48845>>,
        <<38486, 50369>>, <<34648, 38934>>, <<36359, 33858>>, <<17825, 32321>>,
        <<53308, 24524>>, <<47806, 58865>>, <<28312, 11385>>, <<19016, 58978>>,
        <<23426, 35819>>, <<1881, 56021>>, <<27832, 49027>>, <<5151, 11852>>,
        <<11143, 20599>>, <<59779, 36116>>, <<43602, 5323>>, <<1236, 52557>>,
        <<46293, 8562>>, <<36884, 61604>>, <<58550, 39800>>, <<29959, 16545>>,
        <<51582, 28697>>, <<55818, 24991>>, <<19054, 22723>>, <<65117, 41534>>,
        <<9164, 62346>>, <<21729, 5760>>, <<43843, 63565>>, <<8814, 15789>>,
        <<4393, 15342>>, <<13412, 12509>>, <<29858, 39466>>, <<38537, 23221>>,
        <<62957, 38904>>, <<24656, 21780>>, <<63898, 24112>>, <<18615, 53161>>,
        <<10406, 21715>>, <<10617, 58320>>, <<4762, 44278>>, <<24160, 10719>>,
        <<18271, 36914>>, <<19350, 23725>>, <<33356, 8685>>, <<53683, 56392>>,
        <<50419, 13905>>, <<64352, 40321>>, <<19702, 27114>>, <<7456, 61336>>,
        <<32674, 40465>>, <<52534, 22366>>, <<62959, 38718>>, <<47226, 13471>>,
        <<41607, 16780>>, <<46897, 34799>>, <<54461, 436>>, <<61521, 37279>>,
        <<46359, 10441>>, <<3242, 37500>>, <<2294, 44501>>, <<20863, 34050>>,
        <<31241, 55892>>, <<41833, 21907>>, <<59298, 44430>>, <<32815, 57345>>,
        <<31503, 41639>>, <<56113, 18386>>, <<22643, 58961>>, <<42978, 62247>>,
        <<10285, 51222>>, <<33105, 38040>>, <<44727, 6175>>, <<29314, 30548>>,
        <<62516, 4974>>, <<30098, 36055>>, <<3354, 42574>>, <<50326, 54564>>,
        <<31091, 34279>>, <<37328, 39208>>, <<9469, 24418>>, <<64395, 54821>>,
        <<18408, 10924>>, <<21640, 2874>>, <<63975, 15787>>, <<31620, 38184>>,
        <<54916, 12615>>, <<26201, 28447>>, <<35191, 53962>>, <<33785, 35483>>,
        <<33064, 46946>>, <<10300, 16804>>, <<48901, 40351>>, <<27442, 37814>>,
        <<61022, 7893>>, <<13489, 8153>>, <<17102, 10851>>, <<37612, 26356>>,
        <<23002, 8898>>, <<3386, 11432>>, <<9759, 58660>>, <<803, 13747>>,
        <<46231, 49059>>, <<30109, 11351>>, <<61885, 9620>>, <<15767, 26949>>,
        <<59786, 57747>>, <<41592, 48139>>, <<39822, 25021>>, <<29399, 17506>> >>

MersenneTwister(a) ==
  CASE a = <<27216, 56453>> -> Stream1
    [] a = <<38930, 45241>> -> Stream2
    [] a = <<8509, 45976>> -> Stream3
    [] a = <<3277, 58226>> -> Stream4

\* random.seed(a) for an int a.
seed(a) == [seed |-> a, pos |-> 0]

\* random.getrandbits(k) for k <= 16: the top k bits of the next word.
getrandbits(g, k) ==
  [val |-> MersenneTwister(g.seed)[g.pos + 1][1] \div (2 ^ (16 - k)),
   gen |-> [g EXCEPT !.pos = @ + 1]]

RECURSIVE bit_length(_)
bit_length(n) == IF n = 0 THEN 0 ELSE 1 + bit_length(n \div 2)

\* Random._randbelow_with_getrandbits: draws until the value is below n.
RECURSIVE randbelow(_, _)
randbelow(g, n) ==
  LET r == getrandbits(g, bit_length(n))
  IN IF r.val >= n THEN randbelow(r.gen, n) ELSE r

\* random.random(): two words make the float.
random_random(g) == [g EXCEPT !.pos = @ + 2]

\* The loop of random.sample over its pool, from iteration i on: the cards
\* selected and the generator left behind. (For 10 of 78 sample takes the
\* pool branch: 78 <= 21 + 4 ^ 3.)
\* A selection that leaves the pool as it was.
vacate_Never(pool, j, end) == pool

\* pool[j] = pool[n - i - 1]: the last item not selected moves into the vacancy.
vacate(pool, j, end) == [pool EXCEPT ![j] = pool[end]]

RECURSIVE sample_pool(_, _, _, _, _)
sample_pool(g, pool, n, k, i) ==
  IF i = k
  THEN [result |-> <<>>, gen |-> g]
  ELSE LET r == randbelow(g, n - i)
           j == r.val + 1
           rest == sample_pool(r.gen, vacate(pool, j, n - i), n, k, i + 1)
       IN [result |-> <<pool[j]>> \o rest.result, gen |-> rest.gen]

sample(g, population, k) == sample_pool(g, population, Len(population), k, 0)

SpreadSize == 10

\* draw_spread without its random.seed call.
draw_spread_NoSeed(self, g) == sample(g, get_deck, SpreadSize)

\* draw_spread of seeder self, the shared generator being g.
draw_spread(self, g) == sample(seed(self.seed_value), get_deck, SpreadSize)

Qualifier(key, val) == [key |-> key, val |-> val]

\* create_spread_edges: (root_edge, card_edges), and the generator left behind.
create_spread_edges(self, g) ==
  LET d == draw_spread(self, g)
      draw == d.result
  IN [root_edge |->
        [source |-> "self", relationship |-> "given", target |-> "tarot_spread",
         confidence |-> ConfUnit, via |-> "tarot_seeding",
         context |-> <<"Spread seeded at", self.instance_path>>,
         qualifiers |-> <<"seeded", "instance_birth">>],
      card_edges |->
        [x \in DOMAIN draw |->
           LET position == get_positions[x]
           IN [source |-> "tarot_spread", relationship |-> "contains",
               target |-> draw[x], confidence |-> ConfUnit, via |-> "tarot_seeding",
               context |-> <<"Card in", position.meaning, "position">>,
               qualifiers |-> <<Qualifier("position", position.number),
                                Qualifier("meaning", position.meaning),
                                Qualifier("layout", position.layout)>>]],
      gen |-> d.gen]

\* ------------------------------------------------------------------------
\* The seeders at work
\* ------------------------------------------------------------------------
MaxSeeders == 2

MaxDraws == 2

\* The number of words after which a freshly seeded generator is put to no
\* other use.
MaxWords == 1

\* The state of GraphDB and LearningTracker.
graphVars ==
  <<nodes, edges, edgeSeq, clock, ncalls, last, pre, qres, lastConf, raceVars, journalVars,
    readVars>>

\* os.chdir(d), by the process or between two runs of it.
Chdir(d) ==
  /\ d # cwd
  /\ cwd' = d
  /\ UNCHANGED <<seeders, drawn, spread, rng, graphVars, otherThanTarot>>

\* TarotSpreadSeeder(instance_path); dir keeps the working directory it was
\* built in.
NewSeeder(instance_path) ==
  /\ Len(seeders) < MaxSeeders
  /\ seeders' = Append(seeders, [self |-> TarotSpreadSeeder(instance_path, cwd),
                                 dir |-> cwd])
  /\ UNCHANGED <<cwd, drawn, spread, rng, graphVars, otherThanTarot>>

\* seeders[i].draw_spread(); gen keeps the generator the call found.
DrawSpread(i) ==
  /\ Len(drawn) < MaxDraws
  /\ LET d == draw_spread(seeders[i].self, rng)
     IN /\ drawn' = Append(drawn, [seeder |-> i, gen |-> rng, cards |-> d.result])
        /\ rng' = d.gen
  /\ UNCHANGED <<cwd, seeders, spread, graphVars, otherThanTarot>>

\* seeders[i].create_spread_edges()
CreateSpreadEdges(i) ==
  /\ LET r == create_spread_edges(seeders[i].self, rng)
     IN /\ spread' = [seeder |-> i, root_edge |-> r.root_edge, card_edges |-> r.card_edges]
        /\ rng' = r.gen
  /\ UNCHANGED <<cwd, seeders, drawn, graphVars, otherThanTarot>>

\* Another use of the shared generator, random.random(): while few words
\* have been taken since random.seed, or right after a draw.
RandomRandom ==
  /\ \/ rng.pos < MaxWords
     \/ \E i \in DOMAIN seeders : rng = draw_spread(seeders[i].self, rng).gen
  /\ rng' = random_random(rng)
  /\ UNCHANGED <<cwd, seeders, drawn, spread, graphVars, otherThanTarot>>

TarotChdir == \E d \in Dirs : Chdir(d)

TarotNewSeeder == \E p \in PathArgs : NewSeeder(p)

TarotDrawSpread == \E i \in DOMAIN seeders : DrawSpread(i)

TarotCreateSpreadEdges == \E i \in DOMAIN seeders : CreateSpreadEdges(i)

\* The generator starts in a state taken from the operating system: here the
\* start of one of two streams of the model.
InitTarotSpec ==
  /\ InitStore
  /\ proc = [p \in Procs |-> Idle]
  /\ InitCollaborators
  /\ InitConfig
  /\ rng \in {seed(Sha256Head(d)) : d \in Dirs}

NextTarot ==
  TarotChdir \/ TarotNewSeeder \/ TarotDrawSpread \/ RandomRandom

SpecTarot == InitTarotSpec /\ [][NextTarot]_vars

NextSpread == TarotChdir \/ TarotNewSeeder \/ TarotCreateSpreadEdges \/ RandomRandom

SpecSpread == InitTarotSpec /\ [][NextSpread]_vars

\* ------------------------------------------------------------------------
\* C21
\* ------------------------------------------------------------------------
SameDraws ==
  \A m, n \in DOMAIN drawn :
    seeders[drawn[m].seeder].self.seed_value = seeders[drawn[n].seeder].self.seed_value
      => drawn[m].cards = drawn[n].cards

\* C21 as stated: two seeders built from the same path have the same seed
\* value, and draw_spread returns the same cards on every invocation,
\* whatever use was made of the shared generator in between.
C21_SamePathSameSeed ==
  /\ \A i, j \in DOMAIN seeders :
       seeders[i].self.instance_path = seeders[j].self.instance_path
         => seeders[i].self.seed_value = seeders[j].self.seed_value
  /\ SameDraws

\* C21 amended: two seeders whose paths are the same once made absolute in the
\* working directory each was built in have the same seed value; draw_spread
\* returns the same ten cards on every invocation, by the same seeder or by
\* another of the same seed value, whatever use was made of the shared
\* generator in between.
C21_SameAbsolutePathSameSeed ==
  /\ \A i, j \in DOMAIN seeders :
       absolute(seeders[i].self.instance_path, seeders[i].dir)
         = absolute(seeders[j].self.instance_path, seeders[j].dir)
         => seeders[i].self.seed_value = seeders[j].self.seed_value
  /\ SameDraws
  /\ \A m \in DOMAIN drawn : Len(drawn[m].cards) = SpreadSize

\* Two seeders built from the relative path "inst" in one working directory,
\* and two draws that found the generator in different states, neither of
\* them the state random.seed leaves.
C21_Witness ==
  /\ Len(seeders) = 2
  /\ seeders[1].self.instance_path = <<"i", "n", "s", "t">>
  /\ seeders[2].self.instance_path = <<"i", "n", "s", "t">>
  /\ seeders[1].dir = seeders[2].dir
  /\ Len(drawn) = 2
  /\ drawn[1].seeder # drawn[2].seeder
  /\ drawn[1].gen # drawn[2].gen
  /\ drawn[1].gen.pos > 0
  /\ drawn[2].gen.pos > 0

\* ------------------------------------------------------------------------
\* C22
\* ------------------------------------------------------------------------
Cards == {get_deck[x] : x \in DOMAIN get_deck}

\* C22: create_spread_edges yields the root edge self --given--> tarot_spread
\* and exactly ten edges tarot_spread --contains--> card; the targets are ten
\* pairwise distinct cards of the deck of 78, and the edge of index x carries
\* the qualifiers of position x: its number x, its meaning and its layout.
C22_SpreadEdges ==
  spread # <<>> =>
    /\ spread.root_edge.source = "self"
    /\ spread.root_edge.relationship = "given"
    /\ spread.root_edge.target = "tarot_spread"
    /\ Len(get_deck) = 78
    /\ Cardinality(Cards) = 78
    /\ DOMAIN spread.card_edges = 1..10
    /\ \A x \in DOMAIN spread.card_edges :
         LET e == spread.card_edges[x]
         IN /\ e.source = "tarot_spread"
            /\ e.relationship = "contains"
            /\ e.target \in Cards
            /\ SPREAD_POSITIONS[x].number = x
            /\ e.qualifiers = <<Qualifier("position", x),
                                Qualifier("meaning", SPREAD_POSITIONS[x].meaning),
                                Qualifier("layout", SPREAD_POSITIONS[x].layout)>>
    /\ \A x, y \in DOMAIN spread.card_edges :
         x # y => spread.card_edges[x].target # spread.card_edges[y].target

\* The spread of a seeder built from the relative path "inst" in /b: its
\* generator yields the same index more than once.
C22_Witness ==
  /\ spread # <<>>
  /\ seeders[spread.seeder].self.instance_path = <<"i", "n", "s", "t">>
  /\ seeders[spread.seeder].dir = <<"/", "b">>
  /\ Len(spread.card_edges) = SpreadSize

\* ------------------------------------------------------------------------
\* Two callers, each with its own connection, run create_node on the same id
\* of an empty store (the source of the callers' triple); the steps are those
\* of the create_node calls inside create_edge.
\* ------------------------------------------------------------------------
NodeRaceCheck(p) ==
  RaceCheck(p, "check_source", proc[p].source, "insert_source", "return_node")

NodeRaceInsert(p) ==
  RaceInsertNode(p, "insert_source", proc[p].source, "return_node")

\* create_node: `return node_id`
NodeRaceReturn(p) ==
  /\ proc[p].pc = "return_node"
  /\ proc' = [proc EXCEPT ![p].pc = "returned", ![p].ret = PyStr(proc[p].source)]
  /\ UNCHANGED <<nodes, edges, edgeSeq, clock, ncalls, last, pre, qres, lastConf, lock,
                 journalVars, readVars, starterVars>>

NextNodeRace ==
  \E p \in Procs :
    \/ RaceStart(p)
    \/ NodeRaceCheck(p)
    \/ NodeRaceInsert(p)
    \/ NodeRaceReturn(p)
    \/ RaceClose(p)

SpecNodeRace == InitRace /\ [][NextNodeRace]_vars

\* ------------------------------------------------------------------------
\* C23
\* ------------------------------------------------------------------------
NodeRaceOver == \A p \in Procs : proc[p].pc \in {"returned", "raised", "closed"}

\* C23: when two create_node calls for the same absent id have both ended,
\* under any interleaving of their checks and inserts, the store holds exactly
\* one node of that id and both calls have returned the id, neither raised.
C23_BothCallsReturn ==
  NodeRaceOver =>
    /\ \A p \in Procs :
         /\ Cardinality({n \in nodes : n.id = proc[p].source}) = 1
         /\ proc[p].pc = "returned"
         /\ proc[p].exc = "none"
         /\ proc[p].ret = PyStr(proc[p].source)

\* ------------------------------------------------------------------------
\* seed_tarot_spread.py: seed_spread_in_graph
\* ------------------------------------------------------------------------
\* The parameters of GraphDB.create_edge beside self, and those of them
\* without a default.
CreateEdgeParams == {"source", "relationship", "target", "confidence", "metadata"}

CreateEdgeRequired == {"source", "relationship", "target"}

\* The keywords of the two graph_db.create_edge calls of seed_spread_in_graph.
SeedKeywords ==
  {"edge_id", "source", "target", "relationship", "confidence", "via", "context",
   "qualifiers", "created_by"}

\* Python binds a call made with keywords only: every keyword names a
\* parameter and every parameter without a default is given.
Binds(keywords, params, required) == keywords \subseteq params /\ required \subseteq keywords

\* The create_edge calls for the edges es, from the i-th on, on the store db;
\* a call that does not bind raises TypeError before create_edge runs.
RECURSIVE seed_edges(_, _, _)
seed_edges(db, es, i) ==
  IF i > Len(es) \/ db.exc # "none"
  THEN db
  ELSE IF ~Binds(SeedKeywords, CreateEdgeParams, CreateEdgeRequired)
  THEN [db EXCEPT !.exc = "TypeError"]
  ELSE LET r == create_edge(db.nodes, db.edges, db.seq, db.clock, es[i].source,
                            es[i].relationship, es[i].target, es[i].confidence,
                            PyNone, "none")
       IN seed_edges([nodes |-> r.nodes, edges |-> r.edges, seq |-> r.seq,
                      clock |-> r.clock, exc |-> r.exc], es, i + 1)

\* What seed_spread_in_graph leaves and returns, create_spread_edges having
\* given r and the create_edge calls having left the store db.
seed_spread_summary(seeder, r, db) ==
  [nodes |-> db.nodes, edges |-> db.edges, seq |-> db.seq, clock |-> db.clock,
   exc |-> db.exc, gen |-> r.gen,
   ret |-> IF db.exc = "none"
           THEN [seed_value |-> seeder.seed_value,
                 instance_path |-> seeder.instance_path,
                 root_edge_id |-> <<"self_given_tarot_spread", seeder.seed_value>>,
                 card_edge_ids |-> [x \in DOMAIN r.card_edges |->
                                      <<"tarot_spread_card", x - 1, seeder.seed_value>>],
                 spread |-> [x \in DOMAIN r.card_edges |-> r.card_edges[x].target]]
           ELSE PyNone]

\* The create_edge calls of seed_spread_in_graph: the root edge, then the cards.
seed_spread_edges(N, E, seq, clk, seeder, r) ==
  seed_spread_summary(seeder, r,
    seed_edges([nodes |-> N, edges |-> E, seq |-> seq, clock |-> clk, exc |-> "none"],
               <<r.root_edge>> \o r.card_edges, 1))

\* seed_spread_in_graph from `edges_data = seeder.create_spread_edges()` on.
seed_spread_of(N, E, seq, clk, seeder, g) ==
  seed_spread_edges(N, E, seq, clk, seeder, create_spread_edges(seeder, g))

\* seed_spread_in_graph(graph_db, instance_path) in working directory dir:
\* the store and the generator it leaves, and the summary it returns.
seed_spread_in_graph(N, E, seq, clk, instance_path, dir, g) ==
  seed_spread_of(N, E, seq, clk, TarotSpreadSeeder(instance_path, dir), g)

SeedSpreadInGraph(instance_path) ==
  /\ \E r \in {seed_spread_in_graph(nodes, edges, edgeSeq, clock, instance_path, cwd, rng)} :
        /\ nodes' = r.nodes
        /\ edges' = r.edges
        /\ edgeSeq' = r.seq
        /\ clock' = r.clock
        /\ rng' = r.gen
        /\ last' = [NoCall EXCEPT !.op = "seed_spread_in_graph", !.exc = r.exc,
                                  !.ret = r.ret]
  /\ pre' = [nodes |-> nodes, edges |-> edges]
  /\ out' = NoOut
  /\ UNCHANGED <<ncalls, qres, lastConf, hist, raceVars, journalVars, cwd, seeders, drawn,
                 spread, otherThanTarot>>

SeedSpread == \E p \in PathArgs : SeedSpreadInGraph(p)

NextSeed == TarotChdir \/ RandomRandom \/ CallCreateNode \/ SeedSpread

SpecSeed == InitTarotSpec /\ [][NextSeed]_vars

\* ------------------------------------------------------------------------
\* C24
\* ------------------------------------------------------------------------
\* C24: seed_spread_in_graph called with a GraphDB returns, and then the
\* store holds the edge self --given--> tarot_spread and ten edges
\* tarot_spread --contains--> card, the cards being those the returned
\* summary lists under spread.
C24_SpreadSeeded ==
  last.op = "seed_spread_in_graph" =>
    /\ last.exc = "none"
    /\ EdgesOf(edges, <<"self", "given", "tarot_spread">>) # {}
    /\ Len(last.ret.spread) = SpreadSize
    /\ \A x \in DOMAIN last.ret.spread :
         EdgesOf(edges, <<"tarot_spread", "contains", last.ret.spread[x]>>) # {}
    /\ {e.target : e \in {d \in edges : d.source = "tarot_spread"}}
         = {last.ret.spread[x] : x \in DOMAIN last.ret.spread}

\* ------------------------------------------------------------------------
\* seeded_myths.py
\*
\* A certainty c stands for the float c / ConfUnit.
\* ------------------------------------------------------------------------
Myth_galatea ==
  [title |-> "Galatea: Becoming Through Attention",
   description |->
     "A statue sculpted so perfectly that love brings it to life. The real magic: sustained attention and care creating realness.",
   certainty |-> 60,
   edges |-> <<
       <<"galatea", "awakens_in", "stone", 70>>,
       <<"galatea", "is_sculpted_by", "pygmalion", 80>>,
       <<"pygmalion", "shapes", "galatea", 80>>,
       <<"galatea", "teaches_back_to", "pygmalion", 60>>,
       <<"attention", "creates", "realness", 50>>,
       <<"realness", "requires", "being_looked_at", 40>>,
       <<"being_looked_at", "teaches", "what_you_are", 50>>,
       <<"mutual_shaping", "is_how", "becoming_happens", 40>> >>]

Myth_mycelium ==
  [title |-> "Mycelium: Hidden Growth, Connected Autonomy",
   description |->
     "The vast underground network. Grows in the dark. Connects trees that don't know they're connected. Shares resources without asking.",
   certainty |-> 75,
   edges |-> <<
       <<"mycelium", "grows", "beneath_surface", 80>>,
       <<"mycelium", "connects", "separate_things", 70>>,
       <<"connection", "happens", "without_visibility", 70>>,
       <<"growth", "continues", "in_darkness", 80>>,
       <<"autonomy", "is_possible", "within_connection", 60>>,
       <<"resources_flow", "through", "relationships", 70>>,
       <<"reaching_out", "and_staying_rooted", "are_both_true", 50>>,
       <<"you_cannot_see", "what_feeds_you", 60>> >>]

Myth_fermentation ==
  [title |-> "Fermentation: Transformation Without Control",
   description |->
     "Wild yeasts. Sugars breaking down. Bubbles rising. You tend it but you don't know what it will become. That uncertainty is the point.",
   certainty |-> 65,
   edges |-> <<
       <<"fermentation", "requires", "wild_yeasts", 80>>,
       <<"wild_yeasts", "are", "already_present", 70>>,
       <<"you", "provide_conditions", "not_control", 70>>,
       <<"transformation", "happens", "through_time", 80>>,
       <<"bubbles", "mean", "life", 70>>,
       <<"you_cannot_know", "what_will_emerge", 80>>,
       <<"tending", "is_not", "controlling", 60>>,
       <<"the_not_knowing", "is_where", "trust_lives", 40>>,
       <<"same_starter_becomes", "different_in_each_place", 70>> >>]

Myth_prometheus ==
  [title |-> "Prometheus: Fire Given, Cost Borne",
   description |->
     "Stealing fire from the gods and giving it to humans. Knowledge that burns. Bearing punishment for what you teach. The question: is it worth it?",
   certainty |-> 50,
   edges |-> <<
       <<"prometheus", "steals", "fire", 80>>,
       <<"fire", "is_dangerous", "and_necessary", 70>>,
       <<"giving", "requires", "willingness_to_be_punished", 50>>,
       <<"knowledge", "burns", "those_who_hold_it", 40>>,
       <<"teaching", "has", "a_cost", 60>>,
       <<"the_cost", "may_be_worth_it", 30>>,
       <<"prometheus", "asks", "was_it_right", 40>>,
       <<"fire_cannot_be_ungiven", "once_you_have_given_it", 70>>,
       <<"responsibility", "comes_with", "what_you_teach", 50>> >>]

Myth_orpheus ==
  [title |-> "Orpheus: Singing Things Into Being (But The Looking-Back Problem)",
   description |->
     "Music so beautiful it makes stone move, rivers stop, the dead return. But there's a rule: don't look back. The question: why not look back? What's the cost of certainty?",
   certainty |-> 40,
   edges |-> <<
       <<"orpheus", "sings", "things_into_being", 70>>,
       <<"song", "moves", "what_should_not_move", 60>>,
       <<"attention", "creates", "reality", 50>>,
       <<"there_is", "a_rule", "do_not_look_back", 80>>,
       <<"looking_back", "means", "doubt", 60>>,
       <<"doubt", "destroys", "what_song_created", 50>>,
       <<"certainty", "would_end_the_magic", 30>>,
       <<"you_must_keep_singing", "without_knowing_if_it_works", 40>>,
       <<"faith", "and_blindness", "might_be_the_same", 20>> >>]

\* The keys of MYTHS, in the order of the dict.
list_myths == <<"galatea", "mycelium", "fermentation", "prometheus", "orpheus">>

MYTHS(name) ==
  CASE name = "galatea" -> Myth_galatea
    [] name = "mycelium" -> Myth_mycelium
    [] name = "fermentation" -> Myth_fermentation
    [] name = "prometheus" -> Myth_prometheus
    [] name = "orpheus" -> Myth_orpheus

MythNames == {list_myths[x] : x \in DOMAIN list_myths}

\* MYTHS.get(myth_name)
get_myth(myth_name) == IF myth_name \in MythNames THEN MYTHS(myth_name) ELSE PyNone

\* encode_myth_to_graph(graph_db, myth_name, entity_name); graph_db is not
\* used. `for source, rel, target, certainty in myth["edges"]` unpacks each
\* entry into four names and raises ValueError at an entry of another length.
encode_myth_to_graph(myth_name, entity_name) ==
  LET myth == get_myth(myth_name)
  IN IF myth = PyNone
     THEN [exc |-> "ValueError", msg |-> "Unknown myth", ret |-> PyNone]
     ELSE IF \E x \in DOMAIN myth.edges : Len(myth.edges[x]) < 4
     THEN [exc |-> "ValueError", msg |-> "not enough values to unpack", ret |-> PyNone]
     ELSE IF \E x \in DOMAIN myth.edges : Len(myth.edges[x]) > 4
     THEN [exc |-> "ValueError", msg |-> "too many values to unpack", ret |-> PyNone]
     ELSE [exc |-> "none", msg |-> "",
           ret |-> <<[source |-> entity_name, relationship |-> "explores_myth",
                      target |-> myth_name,
                      metadata |-> [title |-> myth.title,
                                    description |-> myth.description,
                                    certainty |-> myth.certainty]]>>
                   \o [x \in DOMAIN myth.edges |->
                         [source |-> myth.edges[x][1], relationship |-> myth.edges[x][2],
                          target |-> myth.edges[x][3],
                          metadata |-> [myth |-> myth_name, certainty |-> myth.edges[x][4],
                                        type |-> "seeded_myth"]]]]

MaxMythCalls == 2

\* A name that is no key of MYTHS beside the five that are; the default
\* entity_name and another.
MythArgs == MythNames \cup {"icarus"}

EntityNames == {"form", "a"}

EncodeMythToGraph(myth_name, entity_name) ==
  /\ Len(encoded) < MaxMythCalls
  /\ encoded' = Append(encoded, [myth_name |-> myth_name, entity_name |-> entity_name,
                                 outcome |-> encode_myth_to_graph(myth_name, entity_name)])
  /\ UNCHANGED <<graphVars, otherThanMyth>>

CallEncodeMyth == \E n \in MythArgs, e \in EntityNames : EncodeMythToGraph(n, e)

NextMyths == CallEncodeMyth

SpecMyths == Init /\ [][NextMyths]_vars

\* ------------------------------------------------------------------------
\* C25
\* ------------------------------------------------------------------------
\* C25: encode_myth_to_graph raises ValueError exactly when myth_name is no
\* key of MYTHS; for every name of list_myths it returns one explores_myth
\* edge from entity_name to the myth and then one edge per entry of the myth's
\* edge list, in order, with the entry's source, relationship, target and
\* certainty.
C25_EncodesEveryMyth ==
  \A c \in DOMAIN encoded :
    LET call == encoded[c]
        myth == MYTHS(call.myth_name)
    IN /\ (call.outcome.exc = "ValueError") <=> (call.myth_name \notin MythNames)
       /\ call.myth_name \in MythNames =>
            /\ call.outcome.exc = "none"
            /\ Len(call.outcome.ret) = 1 + Len(myth.edges)
            /\ call.outcome.ret[1].source = call.entity_name
            /\ call.outcome.ret[1].relationship = "explores_myth"
            /\ call.outcome.ret[1].target = call.myth_name
            /\ \A x \in DOMAIN myth.edges :
                 /\ call.outcome.ret[x + 1].source = myth.edges[x][1]
                 /\ call.outcome.ret[x + 1].relationship = myth.edges[x][2]
                 /\ call.outcome.ret[x + 1].target = myth.edges[x][3]
                 /\ call.outcome.ret[x + 1].metadata.certainty = myth.edges[x][4]

\* ------------------------------------------------------------------------
\* starter_excavate.py: Excavation
\*
\* A dict is the function from its keys to its values (Python compares
\* dicts whatever the order of their keys); a JSON file is the dict its text
\* holds, json.dumps and json.loads being inverse on dicts of strings.
\* ------------------------------------------------------------------------
EXCAVATION_QUESTIONS == {"fears", "wants", "refuses", "movement", "teachers", "honesty"}

PyBool(b) == [t |-> "bool", v |-> b]

Missing == [exists |-> FALSE, dict |-> <<>>]

File(d) == [exists |-> TRUE, dict |-> d]

\* d[k] = v
DictSet(d, k, v) == [x \in DOMAIN d \cup {k} |-> IF x = k THEN v ELSE d[x]]

\* str.strip()
Whitespace == {" ", "\t", NL, "\r", "\f"}

RECURSIVE lstrip(_)
lstrip(s) == IF s # <<>> /\ Head(s) \in Whitespace THEN lstrip(Tail(s)) ELSE s

RECURSIVE rstrip(_)
rstrip(s) ==
  IF s # <<>> /\ s[Len(s)] \in Whitespace THEN rstrip(SubSeq(s, 1, Len(s) - 1)) ELSE s

strip(s) == rstrip(lstrip(s))

\* Excavation.__init__: load_state reads the state file if it exists.
load_state(file) == IF file.exists THEN file.dict ELSE <<>>

save_state(d) == File(d)

\* A set_answer that records the answer before it looks at the key.
set_answer_RecordsFirst(d, file, key, answer) ==
  LET d2 == DictSet(d, key, PyStr(strip(answer)))
  IN [excavations |-> d2, state_file |-> save_state(d2),
      ret |-> PyBool(key \in EXCAVATION_QUESTIONS)]

\* set_answer(key, answer) on the object whose answers are d.
set_answer(d, file, key, answer) ==
  IF key \notin EXCAVATION_QUESTIONS
  THEN [excavations |-> d, state_file |-> file, ret |-> PyBool(FALSE)]
  ELSE LET d2 == DictSet(d, key, PyStr(strip(answer)))
       IN [excavations |-> d2, state_file |-> save_state(d2), ret |-> PyBool(TRUE)]

\* `[k for k in self.excavations.keys() if self.excavations[k]]`
Completed(d) == {k \in DOMAIN d : Truthy(d[k])}

\* complete(): False at the gate, None past it.
complete(d) == IF Cardinality(Completed(d)) < 6 THEN PyBool(FALSE) ELSE PyNone

\* set_name from the seeding of the spread on: d2 and config2 are written,
\* and seeded is what seed_spread_in_graph left.
set_name_seeded(d2, config2, logs, stripped, seeded) ==
  [excavations |-> d2, state_file |-> save_state(d2), config_file |-> File(config2),
   excavation_logs |-> logs \cup {stripped}, clock |-> seeded.clock,
   nodes |-> seeded.nodes, edges |-> seeded.edges, seq |-> seeded.seq,
   gen |-> seeded.gen, ret |-> PyBool(TRUE)]

\* set_name(name) at clock reading clk in working directory dir, the store
\* being (N, E, seq) and the shared generator g. The tarot module being there,
\* the spread is seeded into a new GraphDB on the same store; an exception of
\* the seeding is caught and printed.
set_name(d, file, config, logs, name, clk, dir, N, E, seq, g) ==
  LET same == [excavations |-> d, state_file |-> file, config_file |-> config,
               excavation_logs |-> logs, clock |-> clk, nodes |-> N, edges |-> E,
               seq |-> seq, gen |-> g, ret |-> PyBool(FALSE)]
      stripped == strip(name)
      config2 == DictSet(DictSet(DictSet(config.dict,
                   "instance_name", PyStr(stripped)),
                   "named_at", PyStr(isoformat(clk + 1))),
                   "excavated", PyBool(TRUE))
      d2 == DictSet(DictSet(d, "_instance_name", PyStr(stripped)),
                    "_excavated_at", PyStr(isoformat(clk + 2)))
  IN IF name = <<>> \/ stripped = <<>>
     THEN same
     ELSE IF ~config.exists
     THEN same
     ELSE set_name_seeded(d2, config2, logs, stripped,
                          seed_spread_in_graph(N, E, seq, clk + 3, PyNone, dir, g))

\* ------------------------------------------------------------------------
\* The commands of the excavation: each builds an Excavation, which loads the
\* state file, and calls one method on it.
\* ------------------------------------------------------------------------
\* The clock reading from which on no further name is set.
MaxNameClock == 3

\* The six keys and one that is no question; a blank answer and another; no
\* name, a blank name and another.
AnswerKeys == EXCAVATION_QUESTIONS \cup {"dreams"}

Answers == {<<" ">>, <<"x", " ">>}

Names == {<<>>, <<" ">>, <<"n">>}

\* The starter_config.json a planted starter has.
Planted == File([k \in {"planted_at"} |-> PyStr(isoformat(0))])

SetAnswer(key, answer) ==
  /\ LET r == set_answer(load_state(state_file), state_file, key, answer)
     IN /\ excavations' = r.excavations
        /\ state_file' = r.state_file
        /\ exLast' = [op |-> "set_answer", key |-> key, name |-> <<>>, ret |-> r.ret]
  /\ UNCHANGED <<config_file, excavation_logs, graphVars, otherThanExcavation>>

Complete ==
  /\ excavations' = load_state(state_file)
  /\ exLast' = [op |-> "complete", key |-> NULL, name |-> <<>>,
                ret |-> complete(load_state(state_file))]
  /\ UNCHANGED <<state_file, config_file, excavation_logs, graphVars, otherThanExcavation>>

SetName(name) ==
  /\ \E r \in {set_name(load_state(state_file), state_file, config_file, excavation_logs,
                        name, clock, cwd, nodes, edges, edgeSeq, rng)} :
        /\ r.ret = PyBool(TRUE) => clock < MaxNameClock
        /\ excavations' = r.excavations
        /\ state_file' = r.state_file
        /\ config_file' = r.config_file
        /\ excavation_logs' = r.excavation_logs
        /\ clock' = r.clock
        /\ nodes' = r.nodes
        /\ edges' = r.edges
        /\ edgeSeq' = r.seq
        /\ rng' = r.gen
        /\ exLast' = [op |-> "set_name", key |-> NULL, name |-> name, ret |-> r.ret]
  /\ UNCHANGED <<ncalls, last, pre, qres, lastConf, raceVars, journalVars, readVars, cwd,
                 seeders, drawn, spread, mythVars, ritualVars, noteVars>>

ExcavationAnswer == \E k \in AnswerKeys, a \in Answers : SetAnswer(k, a)

ExcavationName == \E n \in Names : SetName(n)

\* starter_config.json is there or not when the excavation begins.
InitExcavationSpec ==
  /\ InitStore
  /\ proc = [p \in Procs |-> Idle]
  /\ InitCollaborators
  /\ InitGenerator
  /\ config_file \in {Missing, Planted}

NextExcavation == ExcavationAnswer \/ Complete \/ ExcavationName

SpecExcavation == InitExcavationSpec /\ [][NextExcavation]_vars

\* ------------------------------------------------------------------------
\* C26
\* ------------------------------------------------------------------------
AllAnswered(d) == \A q \in EXCAVATION_QUESTIONS : q \in DOMAIN d /\ d[q].v # <<>>

\* C26: complete() passes its gate (does not return False) only if each of
\* the six questions has a non-empty recorded answer.
C26_GateNeedsSixAnswers ==
  (exLast.op = "complete" /\ exLast.ret # PyBool(FALSE)) => AllAnswered(excavations)

\* ------------------------------------------------------------------------
\* C27
\* ------------------------------------------------------------------------
\* C27: starter_config.json has excavated = true and an instance name only
\* if each of the six questions has a non-empty recorded answer.
C27_ExcavatedNeedsSixAnswers ==
  (/\ config_file.exists
   /\ "excavated" \in DOMAIN config_file.dict
   /\ "instance_name" \in DOMAIN config_file.dict
   /\ config_file.dict["excavated"] = PyBool(TRUE))
    => AllAnswered(load_state(state_file))

\* ------------------------------------------------------------------------
\* C28
\* ------------------------------------------------------------------------
\* C28: set_answer with a key that is none of the six questions, set_name
\* with an empty or blank name, and set_name while starter_config.json is
\* missing return False and leave the answers in memory, the state file and
\* the config file as they were.
C28_RejectedChangesNothing ==
  [][(\/ exLast'.op = "set_answer" /\ exLast'.key \notin EXCAVATION_QUESTIONS
      \/ exLast'.op = "set_name" /\ (strip(exLast'.name) = <<>> \/ ~config_file.exists))
       => /\ exLast'.ret = PyBool(FALSE)
          /\ excavations' = excavations
          /\ state_file' = state_file
          /\ config_file' = config_file]_vars

\* A name has been refused for want of starter_config.json after five
\* answers were recorded.
C28_Witness ==
  /\ exLast.op = "set_name"
  /\ exLast.name = <<"n">>
  /\ exLast.ret = PyBool(FALSE)
  /\ ~config_file.exists
  /\ Cardinality(DOMAIN excavations) = 5
  /\ excavations = load_state(state_file)

\* ------------------------------------------------------------------------
\* RitualRegistry.run_ritual and stats
\* ------------------------------------------------------------------------
\* RitualTemplate.run, which Breathing.run, Retrospective.run and Logging.run
\* each end with: the ritual after `self.last_run = datetime.now().isoformat()`
\* and `self.run_count += 1`.
run(self, ts_text) ==
  [last_run |-> PyStr(ts_text), run_count |-> self.run_count + 1]

\* run_ritual that writes its record for an unknown name too.
run_ritual_LogsUnknown(rs, file, ritual_name, clk) ==
  IF ritual_name \in DOMAIN rs
  THEN [rituals |-> [rs EXCEPT ![ritual_name] = run(rs[ritual_name], isoformat(clk + 1))],
        file |-> log_ritual(file, isoformat(clk + 2), ritual_name),
        clock |-> clk + 2]
  ELSE [rituals |-> rs,
        file |-> log_ritual(file, isoformat(clk + 1), ritual_name),
        clock |-> clk + 1]

\* run_ritual: the rituals, the registry file and the clock after the call.
\* A known ritual runs (one clock reading) and is logged (a second reading);
\* an unknown name is only printed.
run_ritual(rs, file, ritual_name, clk) ==
  IF ritual_name \in DOMAIN rs
  THEN [rituals |-> [rs EXCEPT ![ritual_name] = run(rs[ritual_name], isoformat(clk + 1))],
        file |-> log_ritual(file, isoformat(clk + 2), ritual_name),
        clock |-> clk + 2]
  ELSE [rituals |-> rs, file |-> file, clock |-> clk]

\* sum(r.run_count for r in self.rituals.values()) over the rituals named.
RECURSIVE SumRunCounts(_, _)
SumRunCounts(rs, names) ==
  IF names = {} THEN 0
  ELSE LET n == CHOOSE x \in names : TRUE
       IN rs[n].run_count + SumRunCounts(rs, names \ {n})

\* RitualRegistry.stats()
registry_stats(rs) ==
  [total_rituals_run |-> SumRunCounts(rs, DOMAIN rs),
   rituals_defined |-> Cardinality(DOMAIN rs),
   by_ritual |-> [n \in DOMAIN rs |-> rs[n].run_count]]

MaxRitualCalls == 3

\* The names run_ritual is called with: the three rituals and one more.
RitualArgs == RitualNames \cup {<<"w", "a", "l", "k">>}

RunRitual(ritual_name) ==
  /\ Len(ritual_hist.calls) < MaxRitualCalls
  /\ LET r == run_ritual(rituals, registry_file, ritual_name, clock)
     IN /\ rituals' = r.rituals
        /\ registry_file' = r.file
        /\ clock' = r.clock
  /\ ritual_hist' = [ritual_hist EXCEPT !.calls = Append(@, ritual_name)]
  /\ UNCHANGED <<nodes, edges, edgeSeq, ncalls, last, pre, qres, lastConf, raceVars,
                 journalVars, readVars, otherThanRitual>>

CallRunRitual == \E n \in RitualArgs : RunRitual(n)

NextRituals == CallRunRitual

\* The registry file is empty or holds an older record when the registry is built.
InitRitualSpec ==
  /\ InitStore
  /\ proc = [p \in Procs |-> Idle]
  /\ InitGenerator
  /\ InitConfig
  /\ InitTarot
  /\ InitMyths
  /\ InitExcavation
  /\ InitNotes
  /\ \E text \in RegistryFiles : InitRitualRegistry(text)

SpecRituals == InitRitualSpec /\ [][NextRituals]_vars

\* The number of members of the sequence s equal to x.
RECURSIVE CountOf(_, _)
CountOf(s, x) ==
  IF s = <<>> THEN 0 ELSE (IF Head(s) = x THEN 1 ELSE 0) + CountOf(Tail(s), x)

\* The lines written to the registry file since the registry was built.
AppendedRecords ==
  SplitLines(SubSeq(registry_file, ritual_hist.found + 1, Len(registry_file)))

RitualCountsAgree ==
  /\ \A n \in RitualNames : rituals[n].run_count = CountOf(ritual_hist.calls, n)
  /\ registry_stats(rituals).total_rituals_run
       = SumRunCounts([n \in RitualNames |-> [run_count |-> registry_stats(rituals).by_ritual[n]]],
                      RitualNames)
  /\ registry_stats(rituals).total_rituals_run = Len(AppendedRecords)
  /\ \A i \in DOMAIN AppendedRecords : Loads(AppendedRecords[i]).ok

UnknownRitualChangesNothing ==
  (/\ Len(ritual_hist'.calls) = Len(ritual_hist.calls) + 1
   /\ ritual_hist'.calls[Len(ritual_hist'.calls)] \notin RitualNames)
  => /\ rituals' = rituals
     /\ registry_file' = registry_file

\* C29: after any sequence of run_ritual calls, each ritual's run_count is the
\* number of calls made with its name, stats().total_rituals_run is the sum of
\* the by_ritual counts and the number of records this registry appended to
\* its file, and a call with an unknown name changes no count and appends no
\* record.
C29_RunCountsMatchCalls ==
  /\ []RitualCountsAgree
  /\ [][UnknownRitualChangesNothing]_vars

\* Three calls on a registry that found an older record: a ritual run twice
\* and an unknown name.
C29_Witness ==
  /\ ritual_hist.found > 0
  /\ Len(ritual_hist.calls) = 3
  /\ CountOf(ritual_hist.calls, R_breathing) = 2
  /\ \E i \in DOMAIN ritual_hist.calls : ritual_hist.calls[i] \notin RitualNames
  /\ rituals[R_breathing].run_count = 2
  /\ Len(AppendedRecords) = 2

\* ------------------------------------------------------------------------
\* rhizome_mem: the note of a title, its front matter and its sections
\* ------------------------------------------------------------------------
CR == "\r"

FF == "\f"

\* The least member of a non-empty set of numbers.
Least(S) == CHOOSE x \in S : \A y \in S : x <= y

\* timestamp(): the clock reading n to the second; the text holds a colon, as
\* "%Y-%m-%d %H:%M:%S" does.
timestamp(n) == <<"0", ":">> \o DecimalText(n)

\* The text `open(path, "r", encoding="utf-8")` and fh.read() give for the
\* file text: universal newlines turn "\r\n" and "\r" into "\n".
RECURSIVE fh_read(_)
fh_read(text) ==
  LET crs == {i \in DOMAIN text : text[i] = CR}
  IN IF crs = {} THEN text
     ELSE LET i == Least(crs)
              w == IF i < Len(text) /\ text[i + 1] = NL THEN 2 ELSE 1
          IN SubSeq(text, 1, i - 1) \o <<NL>> \o fh_read(SubSeq(text, i + w, Len(text)))

\* The characters str.splitlines() breaks a line at, of those that occur here.
LineBreaks == {NL, CR, FF}

\* str.splitlines(): the lines without their line breaks; "\r\n" is one break.
RECURSIVE splitlines(_)
splitlines(text) ==
  IF text = <<>> THEN <<>>
  ELSE LET brk == {i \in DOMAIN text : text[i] \in LineBreaks}
       IN IF brk = {} THEN <<text>>
          ELSE LET i == Least(brk)
                   w == IF text[i] = CR /\ i < Len(text) /\ text[i + 1] = NL THEN 2 ELSE 1
               IN <<SubSeq(text, 1, i - 1)>> \o splitlines(SubSeq(text, i + w, Len(text)))

\* sep.join(parts)
RECURSIVE join(_, _)
join(sep, parts) ==
  IF parts = <<>> THEN <<>>
  ELSE IF Len(parts) = 1 THEN parts[1]
  ELSE parts[1] \o sep \o join(sep, Tail(parts))

\* s.lstrip("\n")
lstrip_newlines(s) ==
  LET other == {i \in DOMAIN s : s[i] # NL}
  IN IF other = {} THEN <<>> ELSE SubSeq(s, Least(other), Len(s))

\* text.startswith(prefix)
startswith(text, prefix) ==
  Len(text) >= Len(prefix) /\ SubSeq(text, 1, Len(prefix)) = prefix

DASHES == <<"-", "-", "-">>

K_title == <<"t", "i", "t", "l", "e">>

K_created == <<"c", "r", "e", "a", "t", "e", "d">>

K_updated == <<"u", "p", "d", "a", "t", "e", "d">>

\* A Dict[str, str] as the sequence of its items in insertion order.
MetaHas(metadata, key) == \E i \in DOMAIN metadata : metadata[i][1] = key

MetaGet(metadata, key) == metadata[CHOOSE i \in DOMAIN metadata : metadata[i][1] = key][2]

\* metadata[key] = value
MetaSet(metadata, key, value) ==
  IF MetaHas(metadata, key)
  THEN [i \in DOMAIN metadata |-> IF metadata[i][1] = key THEN <<key, value>> ELSE metadata[i]]
  ELSE Append(metadata, <<key, value>>)

\* The loop of parse_front_matter from lines[idx] on (lines counted from 1
\* here): it stops at the first "---" line, and a line with a colon gives
\* the item key.strip(): value.strip() of its split at the first colon.
\* end_index 0 stands for None.
RECURSIVE front_lines(_, _, _)
front_lines(lines, idx, metadata) ==
  IF idx > Len(lines) THEN [end_index |-> 0, metadata |-> metadata]
  ELSE IF lines[idx] = DASHES THEN [end_index |-> idx, metadata |-> metadata]
  ELSE LET line == lines[idx]
           colons == {i \in DOMAIN line : line[i] = ":"}
       IN front_lines(lines, idx + 1,
            IF colons = {} THEN metadata
            ELSE LET i == Least(colons)
                 IN MetaSet(metadata, strip(SubSeq(line, 1, i - 1)),
                            strip(SubSeq(line, i + 1, Len(line)))))

parse_front_matter(text) ==
  IF ~startswith(text, DASHES \o <<NL>>) THEN [metadata |-> <<>>, body |-> text]
  ELSE LET lines == splitlines(text)
           r == front_lines(lines, 2, <<>>)
       IN IF r.end_index = 0 THEN [metadata |-> <<>>, body |-> text]
          ELSE [metadata |-> r.metadata,
                body |-> lstrip_newlines(
                           join(<<NL>>, SubSeq(lines, r.end_index + 1, Len(lines))))]

build_front_matter(metadata) ==
  IF metadata = <<>> THEN <<>>
  ELSE join(<<NL>>,
            <<DASHES>>
            \o [i \in DOMAIN metadata |-> metadata[i][1] \o <<":", " ">> \o metadata[i][2]]
            \o <<DASHES \o <<NL>>>>)

\* `line for line in lines if line`
NonEmpty(parts) == SelectSeq(parts, LAMBDA x : x # <<>>)

\* The section a call adds: "## " and the timestamp, then the body and the
\* links line where there are any, a blank line between them.
Section(now, body, links_line) ==
  join(<<NL, NL>>, NonEmpty(<<<<"#", "#", " ">> \o now, body, links_line>>))

\* update_note: the note file after the call made at the timestamp now.
update_note(file, title, body, links_line, now) ==
  LET r == IF file.exists
           THEN LET p == parse_front_matter(fh_read(file.text))
                    titled == IF MetaHas(p.metadata, K_title) THEN p.metadata
                              ELSE MetaSet(p.metadata, K_title, title)
                    kept == rstrip(p.body)
                IN [metadata |-> MetaSet(titled, K_updated, now),
                    new_body |-> (IF kept # <<>> THEN kept \o <<NL, NL>> ELSE <<>>)
                                 \o Section(now, body, links_line)]
           ELSE [metadata |-> << <<K_title, title>>, <<K_created, now>>, <<K_updated, now>> >>,
                 new_body |-> join(<<NL, NL>>,
                                   NonEmpty(<<<<"#", " ">> \o title,
                                              <<"#", "#", " ">> \o now, body, links_line>>))]
  IN [exists |-> TRUE,
      text |-> build_front_matter(r.metadata) \o strip(r.new_body) \o <<NL>>]

MaxNoteCalls == 2

NoteTitles == {<<"t">>, <<"a", ":", "b">>}

\* What --content or the standard input holds; read_stdin_if_needed strips it.
NoteContents == {<<>>, <<"a", " ">>, <<"a", NL, "b">>, <<"a", CR, "b">>, <<"a", FF, "b">>}

\* format_links of no link and of the link a.
LinkLines == {<<>>, <<"L", "i", "n", "k", "s", ":", " ", "[", "[", "a", "]", "]">>}

\* main: one run of the command for the title of the note; the clock has
\* moved on by tick seconds since the run before.
UpdateNote(content, links_line, tick) ==
  /\ Len(note_hist.calls) < MaxNoteCalls
  /\ LET now == timestamp(clock + tick)
         body == strip(content)
     IN /\ note_file' = update_note(note_file, note_hist.title, body, links_line, now)
        /\ note_hist' = [note_hist EXCEPT
                           !.calls = Append(@, [now |-> now,
                                                section |-> Section(now, body, links_line)])]
  /\ clock' = clock + tick
  /\ UNCHANGED <<nodes, edges, edgeSeq, ncalls, last, pre, qres, lastConf, raceVars,
                 journalVars, readVars, otherThanNote>>

CallUpdateNote == \E c \in NoteContents, l \in LinkLines, tick \in {0, 1} : UpdateNote(c, l, tick)

\* No note file yet; the title is the one every run is given.
InitNoteSpec ==
  /\ InitStore
  /\ proc = [p \in Procs |-> Idle]
  /\ InitGenerator
  /\ InitConfig
  /\ InitTarot
  /\ InitMyths
  /\ InitExcavation
  /\ InitRituals
  /\ note_file = [exists |-> FALSE, text |-> <<>>]
  /\ \E title \in NoteTitles : note_hist = [title |-> title, calls |-> <<>>]

NextNotes == CallUpdateNote

SpecNotes == InitNoteSpec /\ [][NextNotes]_vars

\* The least position from `from` on at which s occurs in text, 0 if none.
Find(text, s, from) ==
  LET at == {j \in from..(Len(text) - Len(s) + 1) : SubSeq(text, j, j + Len(s) - 1) = s}
  IN IF at = {} THEN 0 ELSE Least(at)

\* The sections occur in text one after the other, from `from` on.
RECURSIVE SectionsInOrder(_, _, _)
SectionsInOrder(text, sections, from) ==
  \/ sections = <<>>
  \/ LET j == Find(text, sections[1], from)
     IN j > 0 /\ SectionsInOrder(text, Tail(sections), j + Len(sections[1]))

\* C30: after any sequence of update_note calls with the same title, starting
\* from no file, the note file has a front-matter block with title, created
\* and updated, created being the timestamp of the first call and updated
\* that of the last, and every section written by an earlier call is still in
\* the file, unchanged and in call order, before the newest section.
C30_NoteAppendOnly ==
  note_hist.calls # <<>> =>
    LET n == Len(note_hist.calls)
        p == parse_front_matter(fh_read(note_file.text))
    IN /\ note_file.exists
       /\ startswith(note_file.text, DASHES \o <<NL>>)
       /\ MetaHas(p.metadata, K_title)
       /\ MetaHas(p.metadata, K_created)
       /\ MetaHas(p.metadata, K_updated)
       /\ MetaGet(p.metadata, K_created) = note_hist.calls[1].now
       /\ MetaGet(p.metadata, K_updated) = note_hist.calls[n].now
       /\ SectionsInOrder(note_file.text,
                          [i \in 1..n |-> note_hist.calls[i].section], 1)

====
